---------------------------- MODULE Spec2Model ----------------------------
(***************************************************************************)
(* Idea classification of collab-app: the embeddings-first orchestrator    *)
(* (classifyIdeaIntoBucket), the LLM reasoner operations, the pattern      *)
(* fallback, the bucket-embedding cache and the routes that create and     *)
(* change buckets and ideas, with the rate limiter of those routes and the *)
(* cached reads of the plan.                                               *)
(*                                                                         *)
(* Numbers are fixed point: a similarity or a vector component x of the    *)
(* source is the integer x * Unit.  Vectors have EXPECTED_DIM components   *)
(* (1536 in the source, scaled down here).  A text is the sequence of its  *)
(* words; an absent value (null, undefined, no embedding) is <<>>, and an  *)
(* optional value is <<>> or <<v>>.                                        *)
(***************************************************************************)
EXTENDS Integers, Sequences, FiniteSets, TLC

\* ---- bounds of the model --------------------------------------------------
MaxBuckets == 2
MaxIdeas == 2
MaxSpecs == 2
MaxTime == 6
MaxOvershoot == 100
MaxWords == 5
MaxCalls == 2
MaxAdmissions == 3
MaxPlanUpdates == 2

\* ---- program constants ----------------------------------------------------
Unit == 1000
EXPECTED_DIM == 2
MIN_SIMILARITY == 350
TIE_THRESHOLD == 50
MIN_CONFIDENCE == 35
MAX_CONFIDENCE == 95
SIMILARITY_RANGE == Unit - MIN_SIMILARITY
CONFIDENCE_SPAN == MAX_CONFIDENCE - MIN_CONFIDENCE
BUCKET_CACHE_TTL_MS == 5
EMBEDDING_PRICE_PER_1M_TOKENS_USD == 2
RATE_LIMIT == 2
RATE_WINDOW_MS == 3
PLAN_CACHE_TTL_MS == 5

Null == <<>>

Some(x) == <<x>>

Min(a, b) == IF a < b THEN a ELSE b

Max(a, b) == IF a > b THEN a ELSE b

\* ---- numeric helpers ------------------------------------------------------
RECURSIVE SqrtSearch(_, _, _)
SqrtSearch(n, lo, hi) ==
    IF lo >= hi THEN lo
    ELSE LET mid == (lo + hi + 1) \div 2
         IN  IF mid * mid <= n THEN SqrtSearch(n, mid, hi)
             ELSE SqrtSearch(n, lo, mid - 1)

\* Math.sqrt on the integers the model uses (exact on perfect squares).
Sqrt(n) == SqrtSearch(n, 0, Min(n, 40000))

\* Math.round(num / den) for den > 0: halves go up.
Round(num, den) == (2 * num + den) \div (2 * den)

RECURSIVE DotUpTo(_, _, _)
DotUpTo(a, b, n) ==
    IF n = 0 THEN 0 ELSE DotUpTo(a, b, n - 1) + a[n] * b[n]

normalizeVector(v) ==
    LET norm == DotUpTo(v, v, Len(v))
    IN  IF norm = 0 THEN [i \in 1..Len(v) |-> 0]
        ELSE [i \in 1..Len(v) |-> (v[i] * Unit) \div Sqrt(norm)]

\* <<>> when the function throws, <<similarity>> otherwise.
cosineSimilarity(a, b) ==
    IF Len(a) # EXPECTED_DIM \/ Len(b) # EXPECTED_DIM THEN Null
    ELSE IF Len(a) # Len(b) THEN Null
    ELSE LET dot == DotUpTo(a, b, Len(a))
             normA == DotUpTo(a, a, Len(a))
             normB == DotUpTo(b, b, Len(b))
         IN  IF normA = 0 \/ normB = 0 THEN Some(0)
             ELSE Some((dot * Unit) \div (Sqrt(normA) * Sqrt(normB)))

\* The similarity as a percentage, without the confidence range.
similarityAsPercent(similarity) == Round(similarity * 100, Unit)

\* The linear map without the clamp to [MIN_CONFIDENCE, MAX_CONFIDENCE].
similarityToConfidenceUnclamped(similarity) ==
    IF similarity <= MIN_SIMILARITY THEN MIN_CONFIDENCE
    ELSE Round(MIN_CONFIDENCE * SIMILARITY_RANGE
                 + (similarity - MIN_SIMILARITY) * CONFIDENCE_SPAN,
               SIMILARITY_RANGE)

similarityToConfidence(similarity) ==
    IF similarity <= MIN_SIMILARITY THEN MIN_CONFIDENCE
    ELSE LET raw == Round(MIN_CONFIDENCE * SIMILARITY_RANGE
                            + (similarity - MIN_SIMILARITY) * CONFIDENCE_SPAN,
                          SIMILARITY_RANGE)
         IN  Max(MIN_CONFIDENCE, Min(MAX_CONFIDENCE, raw))

\* The validation accepting a vector of any dimension.
validateVectorDimensionAny(vector, expectedDim) == vector # Null

validateVectorDimension(vector, expectedDim) ==
    /\ vector # Null
    /\ Len(vector) = expectedDim

\* ---- texts ----------------------------------------------------------------
\* String.toLowerCase on the words of the model.
ToLower(w) ==
    CASE w = "General" -> "general"
      [] w = "Uncategorized" -> "uncategorized"
      [] OTHER -> w

\* title + '\n' + description, description left out when absent.
buildBucketEmbeddingText(bucket) == bucket.title \o bucket.description

\* `${idea.title}\n${idea.description ?? ''}`
IdeaEmbeddingText(idea) == idea.title \o idea.description

\* The embedding provider's raw (not normalized) answer for a text.
ProviderVector(text) ==
    LET w == ToLower(text[1])
    IN  IF Len(text) = 1
        THEN CASE w = "venue" -> <<24, 7>>
               [] w = "food" -> <<950, 312>>
               [] w = "travel" -> <<3, 4>>
               [] OTHER -> <<8, 6>>
        ELSE CASE w = "venue" -> <<5, 0>>
               [] w = "food" -> <<7, 24>>
               [] w = "travel" -> <<4, 3>>
               [] w = "general" -> <<44, 117>>
               [] OTHER -> <<0, 2>>

\* The vector generateEmbedding returns for a text when the provider answers.
EmbeddingOf(text) == normalizeVector(ProviderVector(text))

\* ---- pattern-match fallback -----------------------------------------------
Stopwords ==
    {"the", "and", "or", "for", "to", "of", "in", "on", "at", "a", "an",
     "ideas", "general"}

\* text.toLowerCase().split(/[^a-z0-9]+/g).filter(Boolean), as a set.
WordsOf(text) == {ToLower(text[i]) : i \in 1..Len(text)}

Keywords(bucket) ==
    {w \in WordsOf(bucket.title \o bucket.description) :
        Len(w) >= 3 /\ w \notin Stopwords}

extractBucketPatterns(bs) ==
    [i \in 1..Len(bs) |-> [bucketId |-> bs[i].id, keywords |-> Keywords(bs[i])]]

RECURSIVE PatternScan(_, _, _, _)
PatternScan(words, patterns, i, bestMatch) ==
    IF i > Len(patterns) THEN bestMatch
    ELSE LET score == Cardinality(patterns[i].keywords \cap words)
             confidence == Min(50 + score * 10, 90)
         IN  IF score > 0 /\ (bestMatch = Null \/ confidence > bestMatch[1].confidence)
             THEN PatternScan(words, patterns, i + 1,
                      Some([bucketId |-> patterns[i].bucketId,
                            confidence |-> confidence]))
             ELSE PatternScan(words, patterns, i + 1, bestMatch)

\* <<>> for null, <<[bucketId, confidence]>> for a match.
attemptPatternMatch(idea, patterns) ==
    LET bestMatch == PatternScan(WordsOf(idea.title \o idea.description),
                                 patterns, 1, Null)
    IN  IF bestMatch # Null /\ bestMatch[1].confidence >= 70 THEN bestMatch
        ELSE Null

\* ---- state ----------------------------------------------------------------
VARIABLES
    buckets,      \* the buckets table of the plan: buckets[id]
    ideas,        \* the ideas table of the plan: ideas[id]
    cache,        \* the cache entry 'bucket-embeddings:<plan>': <<>> or <<entry>>
    now,          \* Date.now()
    apiKeySet,    \* process.env.OPENAI_API_KEY is configured
    useEmbeddings,\* USE_EMBEDDINGS_CLASSIFICATION
    req,          \* the requests in flight and their local variables
    trip,         \* history: per bucket, 1 once a fetch returned its vector,
                  \* 2 once its title was updated after that
    autoWrites,   \* history: per idea, automatic writes of bucket_id (up to 2)
    requests,     \* the rate limiter's Map: per client key, recent timestamps
    admitted,     \* history: per client key, the requests rateLimit allowed
    plan,         \* the plan's row of the plans table: <<>> or <<version>>
    planCache     \* the cache entry 'plan:<id>': <<>> or <<entry>>

\* The state of the rate limiter.
limiter == <<requests, admitted>>

\* The plan's row and its cache entry.
planStore == <<plan, planCache>>

\* The state no step of classification, bucket or idea handling touches.
outside == <<limiter, planStore>>

vars == <<buckets, ideas, cache, now, apiKeySet, useEmbeddings, req, trip,
          autoWrites, requests, admitted, plan, planCache>>

\* req.headers.get('x-forwarded-for') || 'unknown'
ClientKeys == {"10.0.0.1", "unknown"}

Requests == {1, 2}

UserTitles == {<<"venue">>, <<"food">>}

UserDescriptions == {Null, <<"options">>}

EmptyMap == [id \in {} |-> Null]

IdleReq ==
    [kind |-> "idle", pc |-> "idle", status |-> "", bucket |-> 0,
     title |-> Null, description |-> Null, displayOrder |-> 0, vec |-> Null,
     text |-> <<>>, loaded |-> <<>>, k |-> 0, map |-> EmptyMap,
     idea |-> Null, existing |-> <<>>, scored |-> <<>>, op |-> "",
     llmCaller |-> "", conf |-> Null, newId |-> 0, result |-> Null,
     trace |-> <<>>, created |-> {}, counted |-> {}, provider |-> {},
     ideaId |-> 0, bucketId |-> Null, nIdeas |-> 0, batch |-> <<>>,
     nSpecs |-> 0, assign |-> <<>>, i |-> 0, j |-> 0, createdBuckets |-> <<>>,
     updatedEmbeddings |-> FALSE, dirty |-> FALSE, emStart |-> Null,
     cached |-> Null, failed |-> {}, snap |-> EmptyMap, args |-> <<>>,
     ret |-> <<>>, answer |-> Null, skipped |-> {}, unsaved |-> {},
     mentioned |-> {}, ideaAsks |-> 0, returned |-> Null,
     confidence |-> Null]

\* ---- storage --------------------------------------------------------------
RECURSIVE InsertByOrder(_, _)
InsertByOrder(b, sorted) ==
    IF sorted = <<>> THEN <<b>>
    ELSE IF b.display_order < sorted[1].display_order THEN <<b>> \o sorted
    ELSE <<sorted[1]>> \o InsertByOrder(b, Tail(sorted))

RECURSIVE SortByOrder(_, _)
SortByOrder(bs, n) ==
    IF n = 0 THEN <<>> ELSE InsertByOrder(bs[n], SortByOrder(bs, n - 1))

\* .order('display_order', { ascending: true }); equal orders by insertion.
listBucketsByPlanId(bs) == SortByOrder(bs, Len(bs))

getNextDisplayOrder(bs) ==
    IF bs = <<>> THEN 0
    ELSE LET top == CHOOSE i \in 1..Len(bs) :
                        \A j \in 1..Len(bs) : bs[j].display_order <= bs[i].display_order
         IN  bs[top].display_order + 1

\* The table after createBucket succeeded.
createBucket(bs, title, description, order, embedding) ==
    Append(bs, [id |-> Len(bs) + 1, title |-> title, description |-> description,
                display_order |-> order, embedding |-> embedding])

\* ---- cache ----------------------------------------------------------------
\* An entry that never expires.
CacheLiveNoExpiry == cache # <<>>

\* getCached's result taken as a miss when the cached map is empty.
CacheLiveNonEmpty ==
    cache # <<>> /\ ~(now > cache[1].expires) /\ DOMAIN cache[1].data # {}

\* getCached finds an entry and Date.now() > entry.expires is false.
CacheLive == cache # <<>> /\ ~(now > cache[1].expires)

\* cache.set(key, { data, expires: Date.now() + ttlMs }); populated is
\* history: the time of the call.
setCache(data, ttl) == <<[data |-> data, expires |-> now + ttl, populated |-> now]>>

invalidateCache == <<>>

\* ---- embedding provider ---------------------------------------------------
\* What generateEmbedding(text) can do: throw (<<>>) or return <<vector>>.
generateEmbedding(text) ==
    {Null} \cup (IF text # <<>> /\ apiKeySet THEN {Some(EmbeddingOf(text))} ELSE {})

\* History: the request created a bucket or changed a bucket's text and has not
\* called invalidateCache since.
Dirty(rec) == [rec EXCEPT !.dirty = TRUE]

\* History: the request called invalidateCache.
Invalidated(rec) == [rec EXCEPT !.dirty = FALSE]

\* History: an LLM operation's call failed or its answer did not parse.
Failed(rec, operation) == [rec EXCEPT !.failed = @ \cup {operation}]

\* History: what getCached found: an entry older than the TTL (late), and
\* whether it returned the entry (served).
Looked(rec) ==
    [rec EXCEPT !.cached =
        Some([late |-> cache # <<>> /\ now - cache[1].populated > BUCKET_CACHE_TTL_MS,
              served |-> CacheLive])]

\* History: generateEmbedding threw for the bucket at k during population.
Skipped(rec) == [rec EXCEPT !.skipped = @ \cup {rec.loaded[rec.k].id}]

\* History: updateBucket threw for the bucket at k during population.
Unsaved(rec) == [rec EXCEPT !.unsaved = @ \cup {rec.loaded[rec.k].id}]

\* History: the answer the tie-break operation received.
Answered(rec, answer) == [rec EXCEPT !.answer = Some(answer)]

\* History: the request called the embedding provider, with outcome e.
Asked(rec, e) ==
    [rec EXCEPT !.provider = @ \cup {IF e = Null THEN "threw" ELSE "returned"}]

\* History: generateEmbedding was called with the text of the request's idea
\* and passed its guards (the text is not blank, the key is configured), so
\* that embed() was sent to the provider.
AskedForIdea(rec) == [rec EXCEPT !.ideaAsks = IF apiKeySet THEN @ + 1 ELSE @]

\* ---- requests -------------------------------------------------------------
Finish(rec, status) == [rec EXCEPT !.pc = "done", !.status = status]

Init ==
    /\ buckets = <<>>
    /\ ideas = <<>>
    /\ cache = <<>>
    /\ now = 0
    /\ apiKeySet \in BOOLEAN
    /\ useEmbeddings \in BOOLEAN
    /\ req = [r \in Requests |-> IdleReq]
    /\ trip = <<>>
    /\ autoWrites = <<>>
    /\ requests = [ip \in ClientKeys |-> <<>>]
    /\ admitted = [ip \in ClientKeys |-> <<>>]
    /\ plan = Some(0)
    /\ planCache = <<>>

\* The response was sent; the request's slot is free again.
Complete(r) ==
    /\ req[r].pc = "done"
    /\ req' = [req EXCEPT ![r] = IdleReq]
    /\ UNCHANGED <<buckets, ideas, cache, now, apiKeySet, useEmbeddings, trip,
                   autoWrites, outside>>

Tick ==
    /\ now < MaxTime
    /\ now' = now + 1
    /\ UNCHANGED <<buckets, ideas, cache, apiKeySet, useEmbeddings, req, trip,
                   autoWrites, outside>>

\* ---- POST /api/plans/:id/buckets ------------------------------------------
StartPostBucket(r) ==
    /\ req[r].kind = "idle"
    /\ Len(buckets) < MaxBuckets
    /\ \E t \in UserTitles, d \in UserDescriptions :
          req' = [req EXCEPT ![r] = [IdleReq EXCEPT !.kind = "postBucket",
                     !.pc = "pb_order", !.title = Some(t), !.description = Some(d)]]
    /\ UNCHANGED <<buckets, ideas, cache, now, apiKeySet, useEmbeddings, trip,
                   autoWrites, outside>>

\* getNextDisplayOrder
PostBucketOrder(r) ==
    /\ req[r].pc = "pb_order"
    /\ \/ req' = [req EXCEPT ![r] = Finish(@, "error")]
       \/ req' = [req EXCEPT ![r] = [@ EXCEPT !.pc = "pb_embed",
                     !.displayOrder = getNextDisplayOrder(buckets)]]
    /\ UNCHANGED <<buckets, ideas, cache, now, apiKeySet, useEmbeddings, trip,
                   autoWrites, outside>>

\* best-effort generateEmbedding(title + description)
PostBucketEmbed(r) ==
    /\ req[r].pc = "pb_embed"
    /\ \E e \in generateEmbedding(req[r].title[1] \o req[r].description[1]) :
          req' = [req EXCEPT ![r] = [@ EXCEPT !.pc = "pb_create",
                     !.vec = IF e = Null THEN Null ELSE e[1]]]
    /\ UNCHANGED <<buckets, ideas, cache, now, apiKeySet, useEmbeddings, trip,
                   autoWrites, outside>>

\* createBucket, then invalidateCache
PostBucketCreate(r) ==
    /\ req[r].pc = "pb_create"
    /\ \/ /\ req' = [req EXCEPT ![r] = Finish(@, "error")]
          /\ UNCHANGED <<buckets, cache, trip>>
       \/ /\ Len(buckets) < MaxBuckets
          /\ buckets' = createBucket(buckets, req[r].title[1], req[r].description[1],
                                     req[r].displayOrder, req[r].vec)
          /\ trip' = Append(trip, 0)
          /\ cache' = invalidateCache
          /\ req' = [req EXCEPT ![r] = Finish([@ EXCEPT !.bucket = Len(buckets) + 1], "ok")]
    /\ UNCHANGED <<ideas, now, apiKeySet, useEmbeddings, autoWrites, outside>>

\* ---- PATCH /api/buckets/:id -----------------------------------------------
\* The body's title and description, each optional.
Patches ==
    {p \in [title : {Null} \cup {Some(t) : t \in UserTitles},
            description : {Null} \cup {Some(d) : d \in UserDescriptions}] : TRUE}

StartPatchBucket(r) ==
    /\ req[r].kind = "idle"
    /\ \E id \in 1..Len(buckets), p \in Patches :
          req' = [req EXCEPT ![r] = [IdleReq EXCEPT !.kind = "patchBucket",
                     !.pc = "xb_update", !.bucket = id, !.title = p.title,
                     !.description = p.description]]
    /\ UNCHANGED <<buckets, ideas, cache, now, apiKeySet, useEmbeddings, trip,
                   autoWrites, outside>>

\* History: the text of bucket id changed to that of row during the call rec,
\* so the bucket is no longer one that was settled throughout the call.
Unsettle(rec, id, row) ==
    IF id \in DOMAIN rec.snap /\ rec.snap[id] # buildBucketEmbeddingText(row)
    THEN [rec EXCEPT !.snap = [k \in DOMAIN rec.snap \ {id} |-> rec.snap[k]]]
    ELSE rec

\* updateBucket(id, validation.data)
PatchBucketUpdate(r) ==
    /\ req[r].pc = "xb_update"
    /\ LET id == req[r].bucket
           changesText == req[r].title # Null \/ req[r].description # Null
           row == [buckets[id] EXCEPT
                      !.title = IF req[r].title # Null THEN req[r].title[1] ELSE @,
                      !.description = IF req[r].description # Null
                                      THEN req[r].description[1] ELSE @]
       IN  \/ /\ req' = [req EXCEPT ![r] = Finish(@, "error")]
              /\ UNCHANGED buckets
           \/ /\ buckets' = [buckets EXCEPT ![id] = row]
              /\ req' = [q \in Requests |->
                            IF q # r THEN Unsettle(req[q], id, row)
                            ELSE IF changesText
                            THEN [Dirty(req[r]) EXCEPT !.pc = "xb_embed",
                                                       !.text = buildBucketEmbeddingText(row)]
                            ELSE Finish(req[r], "ok")]
    /\ UNCHANGED <<ideas, cache, now, apiKeySet, useEmbeddings, trip, autoWrites,
                   outside>>

\* The history of the round trip: the title of a fetched bucket was updated.
TripAfterPatch(r) ==
    [id \in 1..Len(trip) |->
        IF id = req[r].bucket /\ req[r].title # Null /\ trip[id] = 1 THEN 2
        ELSE trip[id]]

\* generateEmbedding(text) of the updated row; a failure is logged, and the
\* cache is invalidated either way.
PatchBucketEmbed(r) ==
    /\ req[r].pc = "xb_embed"
    /\ \E e \in generateEmbedding(req[r].text) :
          IF e = Null
          THEN /\ cache' = invalidateCache
               /\ trip' = TripAfterPatch(r)
               /\ req' = [req EXCEPT ![r] = Finish(Invalidated(@), "ok")]
          ELSE /\ req' = [req EXCEPT ![r] = [@ EXCEPT !.pc = "xb_persist", !.vec = e[1]]]
               /\ UNCHANGED <<cache, trip>>
    /\ UNCHANGED <<buckets, ideas, now, apiKeySet, useEmbeddings, autoWrites,
                   outside>>

\* updateBucket(id, { embedding }), then invalidateCache
PatchBucketPersist(r) ==
    /\ req[r].pc = "xb_persist"
    /\ \/ UNCHANGED buckets
       \/ buckets' = [buckets EXCEPT ![req[r].bucket].embedding = req[r].vec]
    /\ cache' = invalidateCache
    /\ trip' = TripAfterPatch(r)
    /\ req' = [req EXCEPT ![r] = Finish(Invalidated(@), "ok")]
    /\ UNCHANGED <<ideas, now, apiKeySet, useEmbeddings, autoWrites, outside>>

\* ---- classifyIdeaIntoBucket: control flow ---------------------------------
\* A classification metric was incremented.
Count(rec, counter) == [rec EXCEPT !.counted = @ \cup {counter}]

\* A reasoner operation or fallback tier ran.
Trace(rec, tier) == [rec EXCEPT !.trace = Append(@, tier)]

\* classifyIdeaIntoBucket returns res to its caller.
ClassifyReturn(rec, res) ==
    IF rec.kind = "classify" THEN Finish([rec EXCEPT !.result = Some(res)], "ok")
    ELSE [rec EXCEPT !.result = Some(res), !.pc = "pi_assign"]

\* classifyIdeaIntoBucket rejects: its caller receives the exception.
ClassifyRaise(rec) ==
    IF rec.kind = "classify" THEN Finish(rec, "raised") ELSE Finish(rec, "error")

\* createNewBucketForIdea asking its own prompt again after a failure.
CallLLMRetrying(rec, caller) ==
    IF caller = "new" /\ Len(rec.trace) < 2 THEN [rec EXCEPT !.pc = "new_llm"]
    ELSE [rec EXCEPT !.pc = "llm_call", !.op = "full", !.llmCaller = caller]

\* classifyWithLLM is called and its prompt sent.
CallLLM(rec, caller) == [rec EXCEPT !.pc = "llm_call", !.op = "full", !.llmCaller = caller]

\* classifyWithLLM returns res: to classifyIdeaIntoBucket's caller from a
\* tail call, through createNewBucketForIdea's catch branch otherwise.
LLMReturn(rec, res) ==
    IF rec.llmCaller = "tail" THEN ClassifyReturn(rec, res)
    ELSE ClassifyReturn(rec, [res EXCEPT !.isNewBucket = TRUE])

\* classifyWithLLM rejects: a tail call hands the exception on, the awaited
\* call in createNewBucketForIdea reaches classifyIdeaIntoBucket's catch.
LLMRaise(rec) ==
    IF rec.llmCaller = "tail" THEN ClassifyRaise(rec)
    ELSE CallLLM(Count(rec, "llm_fallback"), "tail")

\* The catch branch of classifyWithLLM going straight to the last bucket.
PatternFallbackSkipped(rec) ==
    IF rec.existing = <<>> THEN LLMRaise(Trace(rec, "default"))
    ELSE LLMReturn(Trace(rec, "default"),
                   [bucketId |-> rec.existing[Len(rec.existing)].id,
                    confidence |-> 40, isNewBucket |-> FALSE])

\* The catch branch of classifyWithLLM: pattern match, then existingBuckets[0].
PatternFallback(rec) ==
    LET patternMatch == attemptPatternMatch(rec.idea[1],
                                            extractBucketPatterns(rec.existing))
    IN  IF patternMatch # Null
        THEN LLMReturn(Trace(rec, "pattern"),
                       [bucketId |-> patternMatch[1].bucketId,
                        confidence |-> patternMatch[1].confidence,
                        isNewBucket |-> FALSE])
        ELSE IF rec.existing = <<>>
        THEN LLMRaise(Trace(Trace(rec, "pattern"), "default"))
        ELSE LLMReturn(Trace(Trace(rec, "pattern"), "default"),
                       [bucketId |-> rec.existing[1].id, confidence |-> 40,
                        isNewBucket |-> FALSE])

RECURSIVE ScoreFrom(_, _, _, _)
ScoreFrom(existing, map, ideaEmbedding, i) ==
    IF i > Len(existing) THEN <<>>
    ELSE LET bucket == existing[i]
             rest == ScoreFrom(existing, map, ideaEmbedding, i + 1)
         IN  IF bucket.id \notin DOMAIN map THEN rest
             ELSE LET similarity == cosineSimilarity(ideaEmbedding, map[bucket.id])
                  IN  IF similarity = Null THEN rest
                      ELSE <<[id |-> bucket.id, similarity |-> similarity[1]]>> \o rest

\* The scoring loop running over the buckets of the embedding map.
ScoreBucketsOfMap(existing, map, ideaEmbedding) ==
    ScoreFrom(SelectSeq([id \in 1..(MaxBuckets + 1) |-> [id |-> id]],
                        LAMBDA bucket : bucket.id \in DOMAIN map),
              map, ideaEmbedding, 1)

\* for (const bucket of existingBuckets) { ... scored.push(...) }
ScoreBuckets(existing, map, ideaEmbedding) == ScoreFrom(existing, map, ideaEmbedding, 1)

RECURSIVE InsertBySimilarity(_, _)
InsertBySimilarity(e, sorted) ==
    IF sorted = <<>> THEN <<e>>
    ELSE IF e.similarity > sorted[1].similarity THEN <<e>> \o sorted
    ELSE <<sorted[1]>> \o InsertBySimilarity(e, Tail(sorted))

\* scored.sort((a, b) => b.similarity - a.similarity), a stable sort
RECURSIVE SortBySimilarity(_, _)
SortBySimilarity(scored, n) ==
    IF n = 0 THEN <<>>
    ELSE InsertBySimilarity(scored[n], SortBySimilarity(scored, n - 1))

\* The tie filter with the boundary left out.
TiedStrict(scored) ==
    SelectSeq(scored, LAMBDA entry : scored[1].similarity - entry.similarity < TIE_THRESHOLD)

\* scored.filter((entry) => bestSim - entry.similarity <= TIE_THRESHOLD)
Tied(scored) ==
    SelectSeq(scored, LAMBDA entry : scored[1].similarity - entry.similarity <= TIE_THRESHOLD)

\* classifyIdeaIntoBucket from the idea's embedding to its next await or return.
AfterIdeaEmbedding(rec, ideaEmbedding) ==
    LET unsorted == ScoreBuckets(rec.existing, rec.map, ideaEmbedding)
        scored == SortBySimilarity(unsorted, Len(unsorted))
    IN  IF scored = <<>> THEN CallLLM(rec, "tail")
        ELSE IF scored[1].similarity < MIN_SIMILARITY
        THEN [Count(rec, "new_bucket") EXCEPT !.scored = scored, !.pc = "new_llm",
                                              !.op = "new"]
        ELSE IF Len(Tied(scored)) > 1
        THEN [Count(rec, "tie_breaker") EXCEPT !.scored = scored, !.pc = "tie_llm",
                                               !.op = "tie"]
        ELSE ClassifyReturn([Count(rec, "embedding_only") EXCEPT !.scored = scored],
                 [bucketId |-> scored[1].id,
                  confidence |-> similarityToConfidence(scored[1].similarity),
                  isNewBucket |-> FALSE])

\* ---- getBucketEmbeddingsCached --------------------------------------------
MapSet(map, id, embedding) == (id :> embedding) @@ map

\* The loop over the loaded buckets from index k on, up to the next bucket
\* whose embedding must be generated (an await) or to the end of the list.
RECURSIVE PopulateFrom(_, _, _)
PopulateFrom(loaded, k, map) ==
    IF k > Len(loaded) THEN [k |-> k, map |-> map]
    ELSE LET bucket == loaded[k]
             embedding == IF bucket.embedding # Null
                             /\ ~validateVectorDimension(bucket.embedding, EXPECTED_DIM)
                          THEN Null ELSE bucket.embedding
         IN  IF embedding = Null
             THEN IF buildBucketEmbeddingText(bucket) = <<>>
                  THEN PopulateFrom(loaded, k + 1, map)
                  ELSE [k |-> k, map |-> map]
             ELSE PopulateFrom(loaded, k + 1,
                      IF Len(embedding) = EXPECTED_DIM
                      THEN MapSet(map, bucket.id, embedding) ELSE map)

\* The request after getBucketEmbeddingsCached returned map to its caller.
AfterGetBucketEmbeddings(rec, map) ==
    IF rec.kind = "fetch" THEN Finish([rec EXCEPT !.map = map], "ok")
    ELSE IF DOMAIN map = {} THEN CallLLM([rec EXCEPT !.map = map], "tail")
    ELSE [rec EXCEPT !.map = map, !.pc = "embed_idea"]

\* The exception of getBucketEmbeddingsCached handed on to the caller.
AfterGetBucketEmbeddingsUnhandled(rec) ==
    IF rec.kind = "fetch" THEN Finish(rec, "error")
    ELSE ClassifyRaise(Count(rec, "llm_fallback"))

\* The request after getBucketEmbeddingsCached threw.
AfterGetBucketEmbeddingsThrew(rec) ==
    IF rec.kind = "fetch" THEN Finish(rec, "error")
    ELSE CallLLM(Count(rec, "llm_fallback"), "tail")

\* The history of the round trip: a fetch returned the vectors of map.
TripAfterFetch(rec, map) ==
    IF rec.kind = "fetch"
    THEN [id \in 1..Len(trip) |->
             IF id \in DOMAIN map /\ trip[id] = 0 THEN 1 ELSE trip[id]]
    ELSE trip

\* The loop went on from (k, map): it stops at an await or ends with setCache.
ContinuePopulate(r, rec, k, map) ==
    LET p == PopulateFrom(rec.loaded, k, map)
    IN  IF p.k > Len(rec.loaded)
        THEN /\ cache' = setCache(p.map, BUCKET_CACHE_TTL_MS)
             /\ trip' = TripAfterFetch(rec, p.map)
             /\ req' = [req EXCEPT ![r] =
                           AfterGetBucketEmbeddings([rec EXCEPT !.k = p.k], p.map)]
        ELSE /\ req' = [req EXCEPT ![r] =
                           [rec EXCEPT !.pc = "gbec_gen", !.k = p.k, !.map = p.map]]
             /\ UNCHANGED <<cache, trip>>

\* History: the texts of the buckets that are settled when a call starts: the
\* persisted embedding is the vector of the bucket's text and no request is
\* changing the bucket, so every change of text so far was followed by its
\* invalidateCache.
Settled ==
    LET ids == {id \in 1..Len(buckets) :
                   /\ buckets[id].embedding = EmbeddingOf(buildBucketEmbeddingText(buckets[id]))
                   /\ \A q \in Requests :
                          ~(req[q].kind = "patchBucket" /\ req[q].bucket = id
                              /\ req[q].pc # "done")}
    IN  [id \in ids |-> buildBucketEmbeddingText(buckets[id])]

\* A direct call of the exported getBucketEmbeddingsCached(planId).
StartFetch(r) ==
    /\ req[r].kind = "idle"
    /\ req' = [req EXCEPT ![r] = [IdleReq EXCEPT !.kind = "fetch", !.pc = "gbec_get",
                                                  !.snap = Settled]]
    /\ UNCHANGED <<buckets, ideas, cache, now, apiKeySet, useEmbeddings, trip,
                   autoWrites, outside>>

\* getCached(cacheKey): a live entry is returned, an expired one deleted.
GetCached(r) ==
    /\ req[r].pc = "gbec_get"
    /\ IF CacheLive
       THEN /\ req' = [req EXCEPT ![r] =
                          AfterGetBucketEmbeddings(Looked(@), cache[1].data)]
            /\ trip' = TripAfterFetch(req[r], cache[1].data)
            /\ UNCHANGED cache
       ELSE /\ req' = [req EXCEPT ![r] = [Looked(@) EXCEPT !.pc = "gbec_list"]]
            /\ cache' = <<>>
            /\ UNCHANGED trip
    /\ UNCHANGED <<buckets, ideas, now, apiKeySet, useEmbeddings, autoWrites,
                   outside>>

\* listBucketsByPlanId(planId), then the loop up to its first await
LoadBuckets(r) ==
    /\ req[r].pc = "gbec_list"
    /\ \/ /\ req' = [req EXCEPT ![r] = AfterGetBucketEmbeddingsThrew(@)]
          /\ UNCHANGED <<cache, trip>>
       \/ ContinuePopulate(r, [req[r] EXCEPT !.loaded = listBucketsByPlanId(buckets)],
                           1, EmptyMap)
    /\ UNCHANGED <<buckets, ideas, now, apiKeySet, useEmbeddings, autoWrites,
                   outside>>

\* A failure of generateEmbedding leaving getBucketEmbeddingsCached.
GenerateThrewAborting(r) ==
    /\ req' = [req EXCEPT ![r] = AfterGetBucketEmbeddingsThrew(Skipped(Asked(@, Null)))]
    /\ UNCHANGED <<cache, trip, outside>>

\* The catch of generateEmbedding in the loop: continue with the next bucket.
GenerateThrew(r) ==
    ContinuePopulate(r, Skipped(Asked(req[r], Null)), req[r].k + 1, req[r].map)

\* The map without a vector whose updateBucket failed.
DropUnpersisted(map, id, embedding) == map

\* The map after updateBucket failed: the catch logs, and the vector is set
\* like one that was persisted.
KeepUnpersisted(map, id, embedding) ==
    IF Len(embedding) = EXPECTED_DIM THEN MapSet(map, id, embedding) ELSE map

\* generateEmbedding(text) for the bucket at k: a failure skips the bucket
GenerateBucketEmbedding(r) ==
    /\ req[r].pc = "gbec_gen"
    /\ \E e \in generateEmbedding(buildBucketEmbeddingText(req[r].loaded[req[r].k])) :
          IF e = Null
          THEN GenerateThrew(r)
          ELSE /\ req' = [req EXCEPT ![r] = [Asked(@, e) EXCEPT !.pc = "gbec_persist",
                                                               !.vec = e[1]]]
               /\ UNCHANGED <<cache, trip>>
    /\ UNCHANGED <<buckets, ideas, now, apiKeySet, useEmbeddings, autoWrites,
                   outside>>

\* updateBucket(bucket.id, { embedding }): a failure is logged; the vector is
\* put in the map either way.
PersistBucketEmbedding(r) ==
    /\ req[r].pc = "gbec_persist"
    /\ LET id == req[r].loaded[req[r].k].id
           embedding == req[r].vec
       IN  \/ /\ UNCHANGED buckets
              /\ ContinuePopulate(r, Unsaved([req[r] EXCEPT !.vec = Null]), req[r].k + 1,
                                  KeepUnpersisted(req[r].map, id, embedding))
           \/ /\ buckets' = [buckets EXCEPT ![id].embedding = embedding]
              /\ ContinuePopulate(r, [req[r] EXCEPT !.vec = Null], req[r].k + 1,
                     IF Len(embedding) = EXPECTED_DIM
                     THEN MapSet(req[r].map, id, embedding) ELSE req[r].map)
    /\ UNCHANGED <<ideas, now, apiKeySet, useEmbeddings, autoWrites, outside>>

\* ---- classifyIdeaIntoBucket: steps ----------------------------------------
IdeaTexts ==
    {[title |-> <<"venue">>, description |-> <<"options">>],
     [title |-> <<"pizza">>, description |-> <<"night">>]}

\* The bucket objects a caller passes as existingBuckets.
BucketObjects(bs) ==
    [i \in 1..Len(bs) |-> [id |-> bs[i].id, title |-> bs[i].title,
                           description |-> bs[i].description]]

\* The new_bucket / new-category objects the LLM can answer with.
LLMSpecs == {[title |-> <<"travel">>, description |-> Null]}

\* result.confidence as the LLM wrote it: absent, in range, out of range.
LLMConfidences == {Null, Some(80), Some(150)}

\* The parsed answers of the full classification prompt.
LLMDecisions ==
    [action : {"assign_existing"},
     number : {Null} \cup {Some(n) : n \in 0..(MaxBuckets + 1)},
     new_bucket : {Null}, confidence : LLMConfidences]
    \cup [action : {"create_new"}, number : {Null},
          new_bucket : {Null} \cup {Some(s) : s \in LLMSpecs},
          confidence : LLMConfidences]
    \cup [action : {"other"}, number : {Null}, new_bucket : {Null},
          confidence : LLMConfidences]

\* classifyIdeaIntoBucket without the entry guard.
EnterClassifyUnguarded(rec) == [Count(rec, "total") EXCEPT !.pc = "gbec_get"]

\* classifyIdeaIntoBucket up to its first await: the entry guard.
EnterClassify(rec) ==
    LET counted == Count(rec, "total")
    IN  IF ~useEmbeddings \/ rec.existing = <<>>
        THEN CallLLM(Count(counted, "llm_only"), "tail")
        ELSE [counted EXCEPT !.pc = "gbec_get"]

\* A direct call of the exported classifyIdeaIntoBucket(idea, existingBuckets).
StartClassify(r) ==
    /\ req[r].kind = "idle"
    /\ \E idea \in IdeaTexts,
          existing \in {BucketObjects(listBucketsByPlanId(buckets)), <<>>} :
          req' = [req EXCEPT ![r] = EnterClassify([IdleReq EXCEPT
                     !.kind = "classify", !.idea = Some(idea), !.existing = existing])]
    /\ UNCHANGED <<buckets, ideas, cache, now, apiKeySet, useEmbeddings, trip,
                   autoWrites, outside>>

\* generateEmbedding(ideaText), then scoring up to the next await or return
EmbedIdea(r) ==
    /\ req[r].pc = "embed_idea"
    /\ \E e \in generateEmbedding(IdeaEmbeddingText(req[r].idea[1])) :
          req' = [req EXCEPT ![r] =
                     IF e = Null
                     THEN CallLLM(Count(AskedForIdea(Asked(@, e)), "llm_fallback"), "tail")
                     ELSE AfterIdeaEmbedding(AskedForIdea(Asked(@, e)), e[1])]
    /\ UNCHANGED <<buckets, ideas, cache, now, apiKeySet, useEmbeddings, trip,
                   autoWrites, outside>>

\* The tie-break taking the last tied bucket for an index out of range.
TieBreakerChoiceLast(tiedBuckets, answer) ==
    IF answer = Null THEN tiedBuckets[1].id
    ELSE LET index == IF answer[1] = 0 THEN 1 ELSE answer[1]
         IN  IF index \in 1..Len(tiedBuckets) THEN tiedBuckets[index].id
             ELSE tiedBuckets[Len(tiedBuckets)].id

\* classifyWithLLMTieBreaker: the bucket chosen for an answer (<<>>: the call
\* or the parse failed; 0: chosen_bucket_number is not a number).
TieBreakerChoice(tiedBuckets, answer) ==
    IF answer = Null THEN tiedBuckets[1].id
    ELSE LET index == IF answer[1] = 0 THEN 1 ELSE answer[1]
         IN  IF index \in 1..Len(tiedBuckets) THEN tiedBuckets[index].id
             ELSE tiedBuckets[1].id

TieBreak(r) ==
    /\ req[r].pc = "tie_llm"
    /\ LET scored == req[r].scored
           tied == Tied(scored)
       IN  \E answer \in {Null} \cup {Some(n) : n \in 0..(Len(tied) + 1)} :
              LET bucketId == TieBreakerChoice(tied, answer)
                  found == {k \in 1..Len(scored) : scored[k].id = bucketId}
                  chosen == IF found = {} THEN scored[1]
                            ELSE scored[CHOOSE k \in found : \A j \in found : k <= j]
              IN  req' = [req EXCEPT ![r] = ClassifyReturn(
                             IF answer = Null
                             THEN Trace(Failed(Trace(Answered(@, answer), "tie"), "tie"),
                                        "top")
                             ELSE Trace(Answered(@, answer), "tie"),
                             [bucketId |-> chosen.id,
                              confidence |-> similarityToConfidence(chosen.similarity),
                              isNewBucket |-> FALSE])]
    /\ UNCHANGED <<buckets, ideas, cache, now, apiKeySet, useEmbeddings, trip,
                   autoWrites, outside>>

\* createNewBucketForIdea: the new-category prompt and its answer
NewCategory(r) ==
    /\ req[r].pc = "new_llm"
    /\ \E spec \in {Null} \cup {Some(s) : s \in LLMSpecs} :
          req' = [req EXCEPT ![r] =
                     IF spec = Null THEN CallLLM(Failed(Trace(@, "new"), "new"), "new")
                     ELSE [Trace(@, "new") EXCEPT !.pc = "nb_create",
                               !.title = Some(spec[1].title),
                               !.description = Some(spec[1].description)]]
    /\ UNCHANGED <<buckets, ideas, cache, now, apiKeySet, useEmbeddings, trip,
                   autoWrites, outside>>

\* classifyWithLLM: the full classification prompt and its answer
FullClassification(r) ==
    /\ req[r].pc = "llm_call"
    /\ LET rec == Trace(req[r], "full")
           existingBuckets == rec.existing
       IN  \E result \in {Null} \cup {Some(d) : d \in LLMDecisions} :
              req' = [req EXCEPT ![r] =
                  IF result = Null THEN PatternFallback(Failed(rec, "full"))
                  ELSE IF result[1].action = "assign_existing" /\ result[1].number # Null
                  THEN IF existingBuckets = <<>> THEN PatternFallback(rec)
                       ELSE LET index == result[1].number[1]
                                bucket == IF index \in 1..Len(existingBuckets)
                                          THEN existingBuckets[index]
                                          ELSE existingBuckets[1]
                            IN  LLMReturn(rec,
                                    [bucketId |-> bucket.id,
                                     confidence |-> IF result[1].confidence = Null THEN 70
                                                    ELSE result[1].confidence[1],
                                     isNewBucket |-> FALSE])
                  ELSE IF result[1].action = "create_new" /\ result[1].new_bucket # Null
                  THEN [rec EXCEPT !.pc = "nb_create",
                            !.title = Some(result[1].new_bucket[1].title),
                            !.description = Some(result[1].new_bucket[1].description),
                            !.conf = result[1].confidence]
                  ELSE IF existingBuckets = <<>> THEN PatternFallback(rec)
                  ELSE LLMReturn(rec, [bucketId |-> existingBuckets[1].id,
                                       confidence |-> 40, isNewBucket |-> FALSE])]
    /\ UNCHANGED <<buckets, ideas, cache, now, apiKeySet, useEmbeddings, trip,
                   autoWrites, outside>>

\* The new bucket was created, embedded as far as possible, and the cache
\* invalidated: the creating operation returns.
NewBucketReturn(rec) ==
    IF rec.op = "new"
    THEN ClassifyReturn(rec, [bucketId |-> rec.newId, confidence |-> 75,
                              isNewBucket |-> TRUE])
    ELSE LLMReturn(rec, [bucketId |-> rec.newId,
                         confidence |-> IF rec.conf = Null THEN 75 ELSE rec.conf[1],
                         isNewBucket |-> TRUE])

\* createBucket({ title, description, display_order: existingBuckets.length })
NewBucketCreate(r) ==
    /\ req[r].pc = "nb_create"
    /\ \/ /\ req' = [req EXCEPT ![r] =
                        IF @.op = "new" THEN CallLLM(@, "new") ELSE PatternFallback(@)]
          /\ UNCHANGED <<buckets, trip>>
       \/ /\ Len(buckets) < MaxBuckets
          /\ buckets' = createBucket(buckets, req[r].title[1], req[r].description[1],
                                     Len(req[r].existing), Null)
          /\ trip' = Append(trip, 0)
          /\ req' = [req EXCEPT ![r] = [Dirty(@) EXCEPT !.pc = "nb_embed",
                        !.newId = Len(buckets) + 1,
                        !.created = @ \cup {Len(buckets) + 1}]]
    /\ UNCHANGED <<ideas, cache, now, apiKeySet, useEmbeddings, autoWrites,
                   outside>>

\* The exception of generateEmbedding reaching the catch of the operation.
NewBucketEmbedThrewUnhandled(rec) ==
    IF rec.op = "new" THEN CallLLM(Asked(rec, Null), "new")
    ELSE PatternFallback(Asked(rec, Null))

\* The catch around the embedding of the new bucket: the failure is logged,
\* the cache invalidated and the operation returns the bucket.
NewBucketEmbedThrew(rec) == NewBucketReturn(Invalidated(Asked(rec, Null)))

\* best-effort generateEmbedding(text) for the new bucket
NewBucketEmbed(r) ==
    /\ req[r].pc = "nb_embed"
    /\ \E e \in generateEmbedding(req[r].title[1] \o req[r].description[1]) :
          IF e = Null
          THEN /\ cache' = invalidateCache
               /\ req' = [req EXCEPT ![r] = NewBucketEmbedThrew(@)]
          ELSE /\ req' = [req EXCEPT ![r] = [Asked(@, e) EXCEPT !.pc = "nb_persist",
                                                               !.vec = e[1]]]
               /\ UNCHANGED cache
    /\ UNCHANGED <<buckets, ideas, now, apiKeySet, useEmbeddings, trip, autoWrites,
                   outside>>

\* updateBucket(newBucket.id, { embedding }), then invalidateCache
NewBucketPersist(r) ==
    /\ req[r].pc = "nb_persist"
    /\ \/ UNCHANGED buckets
       \/ buckets' = [buckets EXCEPT ![req[r].newId].embedding = req[r].vec]
    /\ cache' = invalidateCache
    /\ req' = [req EXCEPT ![r] = NewBucketReturn(Invalidated([@ EXCEPT !.vec = Null]))]
    /\ UNCHANGED <<ideas, now, apiKeySet, useEmbeddings, trip, autoWrites,
                   outside>>

\* ---- createEmergentBuckets ------------------------------------------------
\* The idea_assignments of a bucket object of the LLM's answer: 1-based
\* indices into the batch, possibly none, possibly out of range.
AssignmentLists == {<<>>, <<1>>, <<1, 2>>, <<2, MaxIdeas + 1>>}

\* The title and description of the bucket objects that have a title.
EmergentTitle == <<"travel">>

\* One more automatic write of bucket_id, counted up to 2.
CountWrite(id) == [autoWrites EXCEPT ![id] = Min(@ + 1, 2)]

\* createEmergentBuckets is left: its locals are gone.
EmergentLeave(rec, pc) ==
    [rec EXCEPT !.pc = pc, !.nSpecs = 0, !.i = 0, !.j = 0, !.assign = <<>>,
                !.newId = 0, !.createdBuckets = <<>>, !.updatedEmbeddings = FALSE]

\* createEmergentBuckets returns the list of bucket ids; returned is history.
EmergentReturn(rec, list) ==
    [EmergentLeave(rec, "pi_refetch") EXCEPT !.returned = Some(list)]

\* The lookup taking the first idea for an index outside the batch.
IdeaAtWrapping(batch, ideaIndex) ==
    IF ideaIndex \in 1..Len(batch) THEN Some(batch[ideaIndex])
    ELSE IF batch # <<>> THEN Some(batch[1]) ELSE Null

\* ideas[ideaIndex - 1]: <<>> for undefined.
IdeaAt(batch, ideaIndex) ==
    IF ideaIndex \in 1..Len(batch) THEN Some(batch[ideaIndex]) ELSE Null

\* History: the indices in the idea_assignments the loop has read.
Mentioned(rec, a) == [rec EXCEPT !.mentioned = @ \cup {a[j] : j \in 1..Len(a)}]

\* The inner loop from index j: indices outside the batch are skipped.
RECURSIVE AdvanceAssign(_)
AdvanceAssign(rec) ==
    IF rec.j > Len(rec.assign) THEN rec
    ELSE IF IdeaAt(rec.batch, rec.assign[rec.j]) # Null THEN [rec EXCEPT !.pc = "em_assign"]
    ELSE AdvanceAssign([rec EXCEPT !.j = @ + 1])

\* The outer loop from index from. The objects of the answer are read as the
\* loop reaches them: those without a title are skipped, the next one with a
\* title is created; after the last one the cache is invalidated if an
\* embedding was stored, and the function throws if it created no bucket.
EmergentNextSpec(r, rec, from) ==
    \/ /\ \E next \in from..rec.nSpecs, a \in AssignmentLists :
             req' = [req EXCEPT ![r] = [Mentioned(rec, a) EXCEPT !.pc = "em_create",
                                           !.i = next, !.j = 0, !.assign = a]]
       /\ UNCHANGED cache
    \/ /\ cache' = IF rec.updatedEmbeddings THEN invalidateCache ELSE cache
       /\ req' = [req EXCEPT ![r] =
             LET b == IF rec.updatedEmbeddings THEN Invalidated(rec) ELSE rec
             IN  IF b.createdBuckets = <<>> THEN [b EXCEPT !.pc = "em_general"]
                 ELSE EmergentReturn(b, b.createdBuckets)]

\* The loops go on from the assignment at j of the bucket object at i.
EmergentContinue(r, rec) ==
    LET a == AdvanceAssign(rec)
    IN  IF a.j <= Len(a.assign)
        THEN /\ req' = [req EXCEPT ![r] = a]
             /\ UNCHANGED cache
        ELSE EmergentNextSpec(r, a, a.i + 1)

\* The emergent prompt and its answer; a failed call, a malformed or an empty
\* answer goes to the General fallback.
EmergentLLM(r) ==
    /\ req[r].pc = "em_llm"
    /\ \/ /\ req' = [req EXCEPT ![r] = [Failed(@, "emergent") EXCEPT !.pc = "em_general"]]
          /\ UNCHANGED cache
       \/ \E n \in 1..MaxSpecs : EmergentNextSpec(r, [req[r] EXCEPT !.nSpecs = n], 1)
    /\ UNCHANGED <<buckets, ideas, now, apiKeySet, useEmbeddings, trip, autoWrites,
                   outside>>

\* createBucket({ title, description, display_order: i })
EmergentCreate(r) ==
    /\ req[r].pc = "em_create"
    /\ \/ /\ req' = [req EXCEPT ![r] = [@ EXCEPT !.pc = "em_general"]]
          /\ UNCHANGED <<buckets, trip>>
       \/ /\ Len(buckets) < MaxBuckets
          /\ buckets' = createBucket(buckets, EmergentTitle, Null, req[r].i - 1, Null)
          /\ trip' = Append(trip, 0)
          /\ req' = [req EXCEPT ![r] = [Dirty(@) EXCEPT !.pc = "em_embed",
                        !.newId = Len(buckets) + 1,
                        !.created = @ \cup {Len(buckets) + 1},
                        !.createdBuckets = Append(@, Len(buckets) + 1)]]
    /\ UNCHANGED <<ideas, cache, now, apiKeySet, useEmbeddings, autoWrites,
                   outside>>

\* best-effort generateEmbedding(text) for the emergent bucket
EmergentEmbed(r) ==
    /\ req[r].pc = "em_embed"
    /\ \E e \in generateEmbedding(EmergentTitle) :
          IF e = Null
          THEN EmergentContinue(r, [Asked(req[r], e) EXCEPT !.j = 1])
          ELSE /\ req' = [req EXCEPT ![r] = [Asked(@, e) EXCEPT !.pc = "em_persist",
                                                               !.vec = e[1]]]
               /\ UNCHANGED cache
    /\ UNCHANGED <<buckets, ideas, now, apiKeySet, useEmbeddings, trip, autoWrites,
                   outside>>

\* updateBucket(bucket.id, { embedding }); updatedEmbeddings = true
EmergentPersist(r) ==
    /\ req[r].pc = "em_persist"
    /\ \/ /\ UNCHANGED buckets
          /\ EmergentContinue(r, [req[r] EXCEPT !.vec = Null, !.j = 1])
       \/ /\ buckets' = [buckets EXCEPT ![req[r].newId].embedding = req[r].vec]
          /\ EmergentContinue(r, [req[r] EXCEPT !.vec = Null, !.j = 1,
                                                !.updatedEmbeddings = TRUE])
    /\ UNCHANGED <<ideas, now, apiKeySet, useEmbeddings, trip, autoWrites,
                   outside>>

\* updateIdea(idea.id, { bucket_id: bucket.id, confidence: 90 })
EmergentAssign(r) ==
    /\ req[r].pc = "em_assign"
    /\ LET id == IdeaAt(req[r].batch, req[r].assign[req[r].j])[1]
       IN  \/ /\ req' = [req EXCEPT ![r] = [@ EXCEPT !.pc = "em_general"]]
              /\ UNCHANGED <<ideas, autoWrites, cache>>
           \/ /\ ideas' = [ideas EXCEPT ![id].bucket_id = req[r].newId,
                                        ![id].confidence = 90]
              /\ autoWrites' = CountWrite(id)
              /\ EmergentContinue(r, [req[r] EXCEPT !.j = @ + 1])
    /\ UNCHANGED <<buckets, now, apiKeySet, useEmbeddings, trip, outside>>

\* The catch branch: createBucket({ title: 'General', display_order: 0 }); a
\* failure here leaves createEmergentBuckets as an exception.
GeneralCreate(r) ==
    /\ req[r].pc = "em_general"
    /\ \/ /\ req' = [req EXCEPT ![r] =
                        Finish(EmergentLeave(Trace(@, "general"), "done"), "error")]
          /\ UNCHANGED <<buckets, trip>>
       \/ /\ Len(buckets) < MaxBuckets
          /\ buckets' = createBucket(buckets, <<"General">>, <<"Uncategorized", "ideas">>,
                                     0, Null)
          /\ trip' = Append(trip, 0)
          /\ req' = [req EXCEPT ![r] =
                        LET rec == [Dirty(Trace(@, "general")) EXCEPT
                                       !.created = @ \cup {Len(buckets) + 1}]
                        IN  IF rec.batch = <<>>
                            THEN EmergentReturn(rec, <<Len(buckets) + 1>>)
                            ELSE [rec EXCEPT !.pc = "em_gassign",
                                     !.newId = Len(buckets) + 1, !.j = 1]]
    /\ UNCHANGED <<ideas, cache, now, apiKeySet, useEmbeddings, autoWrites,
                   outside>>

\* updateIdea(idea.id, { bucket_id: fallbackBucket.id, confidence: 50 })
GeneralAssign(r) ==
    /\ req[r].pc = "em_gassign"
    /\ LET id == req[r].batch[req[r].j]
       IN  \/ /\ req' = [req EXCEPT ![r] = Finish(EmergentLeave(@, "done"), "error")]
              /\ UNCHANGED <<ideas, autoWrites>>
           \/ /\ ideas' = [ideas EXCEPT ![id].bucket_id = req[r].newId,
                                        ![id].confidence = 50]
              /\ autoWrites' = CountWrite(id)
              /\ req' = [req EXCEPT ![r] =
                            IF @.j = Len(@.batch) THEN EmergentReturn(@, <<@.newId>>)
                            ELSE [@ EXCEPT !.j = @ + 1]]
    /\ UNCHANGED <<buckets, cache, now, apiKeySet, useEmbeddings, trip,
                   outside>>

\* ---- POST /api/plans/:id/ideas --------------------------------------------
\* The request has passed rateLimit(request, 10, 60000), which CallRateLimit
\* models on its own: a plan of the model receives fewer than 10 ideas. The
\* background metadata enrichment writes location, date and budget only,
\* which the model does not hold.
createIdea(is, title, description, bucket_id, confidence) ==
    Append(is, [id |-> Len(is) + 1, title |-> title, description |-> description,
                bucket_id |-> bucket_id, confidence |-> confidence,
                embedding |-> Null])

\* .order('created_at', { ascending: false }): the ids, newest first
listIdeasByPlanId(is) == [k \in 1..Len(is) |-> is[Len(is) + 1 - k].id]

\* The ideas whose creation is under way.
BeingCreated == Cardinality({q \in Requests : req[q].pc = "pi_create"})

\* The optional confidence of the request body: z.number().min(0).max(100).
UserConfidences == {Null, Some(0)}

\* The validated body: title and description, bucketId and confidence optional.
SubmitIdea(r, confidences) ==
    /\ req[r].kind = "idle"
    /\ Len(ideas) + BeingCreated < MaxIdeas
    /\ \E idea \in IdeaTexts, bucketId \in {Null} \cup {Some(b) : b \in 1..Len(buckets)},
          confidence \in confidences :
          req' = [req EXCEPT ![r] = [IdleReq EXCEPT !.kind = "postIdea",
                     !.pc = "pi_create", !.idea = Some(idea), !.bucketId = bucketId,
                     !.confidence = confidence]]
    /\ UNCHANGED <<buckets, ideas, cache, now, apiKeySet, useEmbeddings, trip,
                   autoWrites, outside>>

\* A request whose body carries no confidence.
StartPostIdea(r) == SubmitIdea(r, {Null})

\* A request whose body may carry a confidence.
StartPostIdeaWithConfidence(r) == SubmitIdea(r, UserConfidences)

\* createIdea({ title, description, bucket_id: bucketId ?? null,
\*              confidence: confidence ?? 85 })
PostIdeaCreate(r) ==
    /\ req[r].pc = "pi_create"
    /\ \/ /\ req' = [req EXCEPT ![r] = Finish(@, "error")]
          /\ UNCHANGED <<ideas, autoWrites>>
       \/ /\ Len(ideas) < MaxIdeas
          /\ ideas' = createIdea(ideas, req[r].idea[1].title, req[r].idea[1].description,
                                 IF req[r].bucketId = Null THEN 0 ELSE req[r].bucketId[1],
                                 IF req[r].confidence = Null THEN 85
                                 ELSE req[r].confidence[1])
          /\ autoWrites' = Append(autoWrites, 0)
          /\ req' = [req EXCEPT ![r] = [@ EXCEPT !.pc = "pi_embed",
                                                 !.ideaId = Len(ideas) + 1]]
    /\ UNCHANGED <<buckets, cache, now, apiKeySet, useEmbeddings, trip,
                   outside>>

\* The automatic path taken whether or not the body names a bucket.
AfterIdeaEmbedAlwaysClassifying(rec) == [rec EXCEPT !.pc = "pi_ideas"]

\* After the best-effort embedding: the automatic path, or the response.
AfterIdeaEmbed(rec) ==
    IF rec.bucketId = Null THEN [rec EXCEPT !.pc = "pi_ideas"]
    ELSE [rec EXCEPT !.pc = "pi_refetch"]

\* best-effort generateEmbedding(embeddingText) of the new idea
PostIdeaEmbed(r) ==
    /\ req[r].pc = "pi_embed"
    /\ \E e \in generateEmbedding(IdeaEmbeddingText(req[r].idea[1])) :
          req' = [req EXCEPT ![r] =
                     IF e = Null THEN AfterIdeaEmbed(AskedForIdea(@))
                     ELSE [AskedForIdea(@) EXCEPT !.pc = "pi_embed_save", !.vec = e[1]]]
    /\ UNCHANGED <<buckets, ideas, cache, now, apiKeySet, useEmbeddings, trip,
                   autoWrites, outside>>

\* updateIdea(idea.id, { embedding }): a failure is logged
PostIdeaEmbedSave(r) ==
    /\ req[r].pc = "pi_embed_save"
    /\ \/ UNCHANGED ideas
       \/ ideas' = [ideas EXCEPT ![req[r].ideaId].embedding = req[r].vec]
    /\ req' = [req EXCEPT ![r] = AfterIdeaEmbed([@ EXCEPT !.vec = Null])]
    /\ UNCHANGED <<buckets, cache, now, apiKeySet, useEmbeddings, trip, autoWrites,
                   outside>>

\* existingIdeas = await listIdeasByPlanId(planId)
PostIdeaListIdeas(r) ==
    /\ req[r].pc = "pi_ideas"
    /\ \/ req' = [req EXCEPT ![r] = Finish(@, "error")]
       \/ req' = [req EXCEPT ![r] = [@ EXCEPT !.pc = "pi_buckets",
                                              !.nIdeas = Len(listIdeasByPlanId(ideas))]]
    /\ UNCHANGED <<buckets, ideas, cache, now, apiKeySet, useEmbeddings, trip,
                   autoWrites, outside>>

\* The gate letting the first idea of a plan start emergent creation.
GateAtFirstIdea(rec) ==
    IF rec.nIdeas >= 1 /\ Len(rec.existing) = 0 THEN [rec EXCEPT !.pc = "pi_debounce"]
    ELSE IF Len(rec.existing) > 0 THEN EnterClassify(rec)
    ELSE [rec EXCEPT !.pc = "pi_refetch"]

\* The gate not looking at the buckets before emergent creation.
GateIgnoringBuckets(rec) ==
    IF rec.nIdeas >= 2 THEN [rec EXCEPT !.pc = "pi_debounce"]
    ELSE IF Len(rec.existing) > 0 THEN EnterClassify(rec)
    ELSE [rec EXCEPT !.pc = "pi_refetch"]

\* The gate: emergent creation for >= 2 ideas and no bucket, classification
\* when there are buckets, neither for the first idea of an empty plan.
Gate(rec) ==
    IF rec.nIdeas >= 2 /\ Len(rec.existing) = 0 THEN [rec EXCEPT !.pc = "pi_debounce"]
    ELSE IF Len(rec.existing) > 0 THEN EnterClassify(rec)
    ELSE [rec EXCEPT !.pc = "pi_refetch"]

\* existingBuckets = await listBucketsByPlanId(planId), getPlanById, the gate
PostIdeaListBuckets(r) ==
    /\ req[r].pc = "pi_buckets"
    /\ \/ req' = [req EXCEPT ![r] = Finish(@, "error")]
       \/ req' = [req EXCEPT ![r] =
                     Gate([@ EXCEPT !.existing = BucketObjects(listBucketsByPlanId(buckets))])]
    /\ UNCHANGED <<buckets, ideas, cache, now, apiKeySet, useEmbeddings, trip,
                   autoWrites, outside>>

\* await new Promise((resolve) => setTimeout(resolve, 3000)): the timer fired
PostIdeaDebounce(r) ==
    /\ req[r].pc = "pi_debounce"
    /\ req' = [req EXCEPT ![r] = [Trace(@, "debounce") EXCEPT !.pc = "pi_reread"]]
    /\ UNCHANGED <<buckets, ideas, cache, now, apiKeySet, useEmbeddings, trip,
                   autoWrites, outside>>

\* allIdeas = await listIdeasByPlanId(planId); createEmergentBuckets is called
PostIdeaReread(r) ==
    /\ req[r].pc = "pi_reread"
    /\ \/ req' = [req EXCEPT ![r] = Finish(@, "error")]
       \/ req' = [req EXCEPT ![r] = [Trace(@, "emergent") EXCEPT !.pc = "em_llm",
                     !.batch = listIdeasByPlanId(ideas),
                     !.emStart = Some([ideas |-> Len(ideas), buckets |-> Len(buckets)])]]
    /\ UNCHANGED <<buckets, ideas, cache, now, apiKeySet, useEmbeddings, trip,
                   autoWrites, outside>>

\* updateIdea(idea.id, { bucket_id: classification.bucketId, confidence }):
\* the write fails when storage does, and always when the confidence breaks
\* CONSTRAINT confidence_range CHECK (confidence BETWEEN 0 AND 100).
PostIdeaAssign(r) ==
    /\ req[r].pc = "pi_assign"
    /\ LET id == req[r].ideaId
           classification == req[r].result[1]
       IN  \/ /\ req' = [req EXCEPT ![r] = Finish(@, "error")]
              /\ UNCHANGED <<ideas, autoWrites>>
           \/ /\ classification.confidence \in 0..100
              /\ ideas' = [ideas EXCEPT ![id].bucket_id = classification.bucketId,
                                        ![id].confidence = classification.confidence]
              /\ autoWrites' = CountWrite(id)
              /\ req' = [req EXCEPT ![r] = [@ EXCEPT !.pc = "pi_refetch"]]
    /\ UNCHANGED <<buckets, cache, now, apiKeySet, useEmbeddings, trip,
                   outside>>

\* getIdeaById(idea.id) and the 201 response
PostIdeaRefetch(r) ==
    /\ req[r].pc = "pi_refetch"
    /\ \/ req' = [req EXCEPT ![r] = Finish(@, "error")]
       \/ req' = [req EXCEPT ![r] = Finish(@, "ok")]
    /\ UNCHANGED <<buckets, ideas, cache, now, apiKeySet, useEmbeddings, trip,
                   autoWrites, outside>>

\* ---- similarityToConfidence -------------------------------------------------
\* Cosine similarities, with the values a rounding error can add above 1.
SimilarityScores == (0 - Unit)..(Unit + MaxOvershoot)

\* The distances between the two scores of a call pair.
ScoreSteps == {0, 1, 10, Unit}

\* similarityToConfidence applied to two scores s <= s + d.
CallSimilarityToConfidence(r) ==
    /\ req[r].kind = "idle"
    /\ \E s \in SimilarityScores, d \in ScoreSteps :
          req' = [req EXCEPT ![r] = Finish([IdleReq EXCEPT !.kind = "confidence",
                     !.args = <<s, s + d>>,
                     !.ret = <<similarityToConfidence(s),
                               similarityToConfidence(s + d)>>], "ok")]
    /\ UNCHANGED <<buckets, ideas, cache, now, apiKeySet, useEmbeddings, trip,
                   autoWrites, outside>>

\* ---- attemptPatternMatch ----------------------------------------------------
\* The words ideas and keyword lists are made of.
WordList == <<"venue", "food", "travel", "pizza", "night", "hotel", "music">>

Vocabulary == SubSeq(WordList, 1, Min(MaxWords, Len(WordList)))

\* The ideas passed to attemptPatternMatch: the first n words as the title.
PatternIdeas ==
    {[title |-> SubSeq(Vocabulary, 1, n), description |-> <<>>] :
        n \in 0..Len(Vocabulary)}

\* The BucketPattern lists passed to attemptPatternMatch.
PatternLists ==
    LET words == {Vocabulary[i] : i \in 1..Len(Vocabulary)}
    IN  UNION {[1..n -> SUBSET words] : n \in 0..MaxBuckets}

\* A direct call of the exported attemptPatternMatch(idea, patterns).
CallAttemptPatternMatch(r) ==
    /\ req[r].kind = "idle"
    /\ \E idea \in PatternIdeas, keywords \in PatternLists :
          LET patterns == [i \in DOMAIN keywords |->
                              [bucketId |-> i, keywords |-> keywords[i]]]
          IN  req' = [req EXCEPT ![r] = Finish([IdleReq EXCEPT !.kind = "pattern",
                         !.args = <<idea, patterns>>,
                         !.ret = <<attemptPatternMatch(idea, patterns)>>], "ok")]
    /\ UNCHANGED <<buckets, ideas, cache, now, apiKeySet, useEmbeddings, trip,
                   autoWrites, outside>>

\* ---- rateLimit ---------------------------------------------------------------
\* The limiter recording a request before it tests the limit.
rateLimitRecordingRejected(store, ip, nowMs, limit, windowMs) ==
    LET windowStart == nowMs - windowMs
        recentRequests == SelectSeq(store[ip], LAMBDA ts : ts > windowStart)
    IN  [allowed |-> Len(recentRequests) < limit,
         requests |-> [store EXCEPT ![ip] = Append(recentRequests, nowMs)]]

\* rateLimit(req, limit, windowMs) for the client key ip at Date.now() = nowMs:
\* the answer and the Map after the call.
rateLimit(store, ip, nowMs, limit, windowMs) ==
    LET windowStart == nowMs - windowMs
        timestamps == store[ip]
        recentRequests == SelectSeq(timestamps, LAMBDA ts : ts > windowStart)
    IN  IF Len(recentRequests) >= limit
        THEN [allowed |-> FALSE, requests |-> store]
        ELSE [allowed |-> TRUE,
              requests |-> [store EXCEPT ![ip] = Append(recentRequests, nowMs)]]

\* The routes that call rateLimit(request, 10, 60000): POST
\* /api/plans/:id/ideas and POST /api/ideas/:id/upload-url.
LimitedRoutes == {"ideas", "upload-url"}

\* The number of requests rateLimit has allowed so far.
Admissions ==
    Cardinality({e \in ClientKeys \X (1..MaxAdmissions) : e[2] <= Len(admitted[e[1]])})

\* The call of rateLimit that opens a request of a limited route; the answer
\* false is the 429 response. The limiter is followed for MaxAdmissions
\* allowed requests.
CallRateLimit(r) ==
    /\ req[r].kind = "idle"
    /\ \E ip \in ClientKeys, route \in LimitedRoutes :
          LET out == rateLimit(requests, ip, now, RATE_LIMIT, RATE_WINDOW_MS)
          IN  /\ Admissions < MaxAdmissions
              /\ requests' = out.requests
              /\ admitted' = IF out.allowed
                             THEN [admitted EXCEPT
                                      ![ip] = Append(@, [ts |-> now, route |-> route])]
                             ELSE admitted
              /\ req' = [req EXCEPT ![r] = Finish([IdleReq EXCEPT !.kind = "limit",
                             !.args = <<ip, route, now>>,
                             !.ret = <<out.allowed>>],
                             IF out.allowed THEN "ok" ELSE "429")]
    /\ UNCHANGED <<buckets, ideas, cache, now, apiKeySet, useEmbeddings, trip,
                   autoWrites, planStore>>

\* ---- plans: getPlanById, updatePlan, deletePlan -----------------------------
\* A plan's row is the number of updates it has received. getCached(cacheKey)
\* finds the entry 'plan:<id>' and Date.now() > entry.expires is false.
PlanCacheLive == planCache # <<>> /\ ~(now > planCache[1].expires)

\* History: the plan as the most recent completed updatePlan or deletePlan
\* left it; an update that has written the row and not yet returned is not
\* completed.
CompletedPlan ==
    IF plan = Null THEN Null
    ELSE Some(plan[1] - Cardinality({q \in Requests : req[q].pc = "up_invalidate"}))

\* getPlanById up to its first await: the cached plan is returned, or the
\* select is sent. args is history: CompletedPlan when the call started.
StartGetPlan(r) ==
    /\ req[r].kind = "idle"
    /\ IF PlanCacheLive
       THEN /\ req' = [req EXCEPT ![r] = Finish([IdleReq EXCEPT !.kind = "getPlan",
                           !.args = <<CompletedPlan>>, !.ret = <<planCache[1].data>>],
                           "ok")]
            /\ UNCHANGED planCache
       ELSE /\ req' = [req EXCEPT ![r] = [IdleReq EXCEPT !.kind = "getPlan",
                           !.pc = "gp_select", !.args = <<CompletedPlan>>]]
            /\ planCache' = <<>>
    /\ UNCHANGED <<buckets, ideas, cache, now, apiKeySet, useEmbeddings, trip,
                   autoWrites, limiter, plan>>

\* supabase.from('plans').select('*').eq('id', id).single() runs in storage
GetPlanSelect(r) ==
    /\ req[r].pc = "gp_select"
    /\ \/ req' = [req EXCEPT ![r] = Finish(@, "error")]
       \/ /\ plan = Null
          /\ req' = [req EXCEPT ![r] = Finish(@, "notfound")]
       \/ /\ plan # Null
          /\ req' = [req EXCEPT ![r] = [@ EXCEPT !.pc = "gp_store", !.result = plan]]
    /\ UNCHANGED <<buckets, ideas, cache, now, apiKeySet, useEmbeddings, trip,
                   autoWrites, outside>>

\* The select has resolved: setCache(cacheKey, plan, 300000); return plan
GetPlanStore(r) ==
    /\ req[r].pc = "gp_store"
    /\ planCache' = <<[data |-> req[r].result[1], expires |-> now + PLAN_CACHE_TTL_MS]>>
    /\ req' = [req EXCEPT ![r] = Finish([@ EXCEPT !.ret = <<req[r].result[1]>>,
                                                   !.result = Null], "ok")]
    /\ UNCHANGED <<buckets, ideas, cache, now, apiKeySet, useEmbeddings, trip,
                   autoWrites, limiter, plan>>

StartUpdatePlan(r) ==
    /\ req[r].kind = "idle"
    /\ IF plan = Null THEN TRUE ELSE plan[1] < MaxPlanUpdates
    /\ req' = [req EXCEPT ![r] = [IdleReq EXCEPT !.kind = "updatePlan",
                                                  !.pc = "up_update"]]
    /\ UNCHANGED <<buckets, ideas, cache, now, apiKeySet, useEmbeddings, trip,
                   autoWrites, outside>>

\* supabase.from('plans').update(data).eq('id', id).select().single()
UpdatePlanWrite(r) ==
    /\ req[r].pc = "up_update"
    /\ \/ /\ req' = [req EXCEPT ![r] = Finish(@, "error")]
          /\ UNCHANGED plan
       \/ /\ plan = Null
          /\ req' = [req EXCEPT ![r] = Finish(@, "notfound")]
          /\ UNCHANGED plan
       \/ /\ plan # Null /\ plan[1] < MaxPlanUpdates
          /\ plan' = Some(plan[1] + 1)
          /\ req' = [req EXCEPT ![r] = [@ EXCEPT !.pc = "up_invalidate"]]
    /\ UNCHANGED <<buckets, ideas, cache, now, apiKeySet, useEmbeddings, trip,
                   autoWrites, limiter, planCache>>

\* The update has resolved: invalidateCache(`plan:${id}`); return plan
UpdatePlanInvalidate(r) ==
    /\ req[r].pc = "up_invalidate"
    /\ planCache' = <<>>
    /\ req' = [req EXCEPT ![r] = Finish(@, "ok")]
    /\ UNCHANGED <<buckets, ideas, cache, now, apiKeySet, useEmbeddings, trip,
                   autoWrites, limiter, plan>>

StartDeletePlan(r) ==
    /\ req[r].kind = "idle"
    /\ req' = [req EXCEPT ![r] = [IdleReq EXCEPT !.kind = "deletePlan",
                                                  !.pc = "dp_delete"]]
    /\ UNCHANGED <<buckets, ideas, cache, now, apiKeySet, useEmbeddings, trip,
                   autoWrites, outside>>

\* supabase.from('plans').delete().eq('id', id), then return true: a delete
\* that matches no row is no error.
DeletePlanWrite(r) ==
    /\ req[r].pc = "dp_delete"
    /\ \/ /\ req' = [req EXCEPT ![r] = Finish(@, "error")]
          /\ UNCHANGED plan
       \/ /\ plan' = Null
          /\ req' = [req EXCEPT ![r] = Finish(@, "ok")]
    /\ UNCHANGED <<buckets, ideas, cache, now, apiKeySet, useEmbeddings, trip,
                   autoWrites, limiter, planCache>>

\* ---- cosineSimilarity -------------------------------------------------------
\* The number arrays passed to cosineSimilarity: every length up to one more
\* than EXPECTED_DIM, the zero vector among them.
CosineVectors == UNION {[1..n -> {0, 3, 4}] : n \in 1..(EXPECTED_DIM + 1)}

\* A direct call of the exported cosineSimilarity(a, b).
CallCosineSimilarity(r) ==
    /\ req[r].kind = "idle"
    /\ \E a \in CosineVectors, b \in CosineVectors :
          req' = [req EXCEPT ![r] = Finish([IdleReq EXCEPT !.kind = "cosine",
                     !.args = <<a, b>>,
                     !.ret = <<cosineSimilarity(a, b)>>], "ok")]
    /\ UNCHANGED <<buckets, ideas, cache, now, apiKeySet, useEmbeddings, trip,
                   autoWrites, outside>>

\* ---- generateEmbedding and its usage counters --------------------------------
\* Here a text can hold blank words (" "): white space.
RECURSIVE TrimStart(_)
TrimStart(text) ==
    IF text # <<>> /\ text[1] = " " THEN TrimStart(Tail(text)) ELSE text

RECURSIVE TrimEnd(_)
TrimEnd(text) ==
    IF text # <<>> /\ text[Len(text)] = " "
    THEN TrimEnd(SubSeq(text, 1, Len(text) - 1)) ELSE text

\* text?.trim() left out.
TrimNothing(text) == text

\* text?.trim()
Trim(text) == TrimEnd(TrimStart(text))

\* totalEmbeddingCalls, totalEmbeddingTokens and totalEmbeddingCostUSD, the
\* cost in hundredths of a dollar per million tokens.
NoUsage == [calls |-> 0, tokens |-> 0, cost |-> 0]

\* trackEmbeddingCost(usage): <<>> for a usage without a token count.
trackEmbeddingCost(stats, usage) ==
    IF usage = Null \/ usage[1] = 0 THEN stats
    ELSE [calls |-> stats.calls + 1, tokens |-> stats.tokens + usage[1],
          cost |-> stats.cost + usage[1] * EMBEDDING_PRICE_PER_1M_TOKENS_USD]

\* The token counts the provider reports.
UsageTokens == {3, 5}

\* The counters after at most n counted calls.
RECURSIVE ReachableStats(_)
ReachableStats(n) ==
    IF n = 0 THEN {NoUsage}
    ELSE LET before == ReachableStats(n - 1)
         IN  before \cup {trackEmbeddingCost(s, Some(t)) : s \in before, t \in UsageTokens}

\* What embed() does: reject, or resolve with or without a usage and with or
\* without a vector.
ProviderAnswers ==
    {[ok |-> FALSE, usage |-> Null, vector |-> FALSE]}
    \cup [ok : {TRUE}, usage : {Null, Some(0)} \cup {Some(t) : t \in UsageTokens},
          vector : BOOLEAN]

\* The texts passed to generateEmbedding.
EmbedTexts == {<<>>, <<" ">>, <<"venue">>, <<" ", "venue", " ">>, <<"venue", "options">>}

\* generateEmbedding(text) with the counters before the call and the
\* provider's answer: the result (<<>> when it throws, with the error), the
\* counters after the call and whether embed() was called.
generateEmbeddingCall(text, stats, answer) ==
    LET cleaned == Trim(text)
    IN  IF cleaned = <<>>
        THEN [result |-> Null, error |-> "empty", stats |-> stats, called |-> FALSE]
        ELSE IF ~apiKeySet
        THEN [result |-> Null, error |-> "not_configured", stats |-> stats,
              called |-> FALSE]
        ELSE IF ~answer.ok
        THEN [result |-> Null, error |-> "provider", stats |-> stats, called |-> TRUE]
        ELSE LET tracked == trackEmbeddingCost(stats, answer.usage)
             IN  IF ~answer.vector
                 THEN [result |-> Null, error |-> "invalid_vector", stats |-> tracked,
                       called |-> TRUE]
                 ELSE [result |-> Some(EmbeddingOf(cleaned)), error |-> "",
                       stats |-> tracked, called |-> TRUE]

\* A direct call of the exported generateEmbedding(text).
CallGenerateEmbedding(r) ==
    /\ req[r].kind = "idle"
    /\ \E text \in EmbedTexts, stats \in ReachableStats(MaxCalls),
          answer \in ProviderAnswers :
          req' = [req EXCEPT ![r] = Finish([IdleReq EXCEPT !.kind = "embed",
                     !.args = <<text, stats, answer>>,
                     !.ret = <<generateEmbeddingCall(text, stats, answer)>>], "ok")]
    /\ UNCHANGED <<buckets, ideas, cache, now, apiKeySet, useEmbeddings, trip,
                   autoWrites, outside>>

\* ---- specifications -------------------------------------------------------
\* Bucket operations and cache reads, one request at a time.
NextBuckets ==
    \E r \in {1} :
          \/ StartPostBucket(r)
          \/ PostBucketOrder(r)
          \/ PostBucketEmbed(r)
          \/ PostBucketCreate(r)
          \/ StartPatchBucket(r)
          \/ PatchBucketUpdate(r)
          \/ PatchBucketEmbed(r)
          \/ PatchBucketPersist(r)
          \/ StartFetch(r)
          \/ GetCached(r)
          \/ LoadBuckets(r)
          \/ GenerateBucketEmbedding(r)
          \/ PersistBucketEmbedding(r)
          \/ Complete(r)

InitBuckets == Init /\ apiKeySet /\ useEmbeddings

SpecBuckets == InitBuckets /\ [][NextBuckets]_vars

\* Direct calls of classifyIdeaIntoBucket on a plan whose buckets are created
\* through the buckets route, one call at a time, while the clock advances.
NextClassify ==
    \/ Tick
    \/ \E r \in {1} :
          \/ StartPostBucket(r)
          \/ PostBucketOrder(r)
          \/ PostBucketEmbed(r)
          \/ PostBucketCreate(r)
          \/ StartClassify(r)
          \/ GetCached(r)
          \/ LoadBuckets(r)
          \/ GenerateBucketEmbedding(r)
          \/ PersistBucketEmbedding(r)
          \/ EmbedIdea(r)
          \/ TieBreak(r)
          \/ NewCategory(r)
          \/ FullClassification(r)
          \/ NewBucketCreate(r)
          \/ NewBucketEmbed(r)
          \/ NewBucketPersist(r)
          \/ Complete(r)

SpecClassify == Init /\ [][NextClassify]_vars

\* Calls of similarityToConfidence.
NextConfidence == \E r \in {1} : CallSimilarityToConfidence(r) \/ Complete(r)

SpecConfidence == Init /\ [][NextConfidence]_vars

\* Reads of the plan in slot 1 while slot 2 updates and deletes it, in any
\* interleaving, while the clock advances.
NextPlan ==
    \/ Tick
    \/ \E r \in {1} :
          \/ StartGetPlan(r)
          \/ GetPlanSelect(r)
          \/ GetPlanStore(r)
          \/ Complete(r)
    \/ \E r \in {2} :
          \/ StartUpdatePlan(r)
          \/ UpdatePlanWrite(r)
          \/ UpdatePlanInvalidate(r)
          \/ StartDeletePlan(r)
          \/ DeletePlanWrite(r)
          \/ Complete(r)

SpecPlan == Init /\ [][NextPlan]_vars

\* Requests of the limited routes up to their call of rateLimit, while the
\* clock advances.
NextRateLimit == Tick \/ \E r \in {1} : CallRateLimit(r) \/ Complete(r)

SpecRateLimit == Init /\ [][NextRateLimit]_vars

\* Calls of cosineSimilarity.
NextCosine == \E r \in {1} : CallCosineSimilarity(r) \/ Complete(r)

SpecCosine == Init /\ [][NextCosine]_vars

\* Calls of generateEmbedding.
NextEmbedding == \E r \in {1} : CallGenerateEmbedding(r) \/ Complete(r)

SpecEmbedding == Init /\ [][NextEmbedding]_vars

\* Calls of attemptPatternMatch.
NextPattern == \E r \in {1} : CallAttemptPatternMatch(r) \/ Complete(r)

SpecPattern == Init /\ [][NextPattern]_vars

\* The embedding column of a bucket row as listBucketsByPlanId delivers it:
\* parseVector returns a numeric array of any length, so beside no vector and
\* the vector of the row's text there are vectors with one component too few
\* and one too many.
StoredEmbeddings(text) ==
    {Null, EmbeddingOf(text), [i \in 1..(EXPECTED_DIM - 1) |-> Unit],
     [i \in 1..(EXPECTED_DIM + 1) |-> IF i = 1 THEN Unit ELSE 0]}

\* The rows a plan's bucket at position id can be.
StoredRows(id) ==
    UNION {{[id |-> id, title |-> t, description |-> d, display_order |-> id - 1,
             embedding |-> e] : e \in StoredEmbeddings(t \o d)} :
              t \in UserTitles, d \in UserDescriptions}

\* The buckets tables of a plan that exists when the process starts.
StoredTables ==
    UNION {{bs \in [1..n -> UNION {StoredRows(id) : id \in 1..n}] :
               \A id \in 1..n : bs[id].id = id} : n \in 0..MaxBuckets}

InitPopulate ==
    /\ buckets \in StoredTables
    /\ ideas = <<>>
    /\ cache = <<>>
    /\ now = 0
    /\ apiKeySet \in BOOLEAN
    /\ useEmbeddings = TRUE
    /\ req = [r \in Requests |-> IdleReq]
    /\ trip = [id \in 1..Len(buckets) |-> 0]
    /\ autoWrites = <<>>
    /\ requests = [ip \in ClientKeys |-> <<>>]
    /\ admitted = [ip \in ClientKeys |-> <<>>]
    /\ plan = Some(0)
    /\ planCache = <<>>

\* Direct calls of getBucketEmbeddingsCached on a plan that has its buckets.
NextPopulate ==
    \E r \in {1} :
          \/ StartFetch(r)
          \/ GetCached(r)
          \/ LoadBuckets(r)
          \/ GenerateBucketEmbedding(r)
          \/ PersistBucketEmbedding(r)
          \/ Complete(r)

SpecPopulate == InitPopulate /\ [][NextPopulate]_vars

\* Reads of the bucket embeddings in slot 1 while slot 2 creates the plan's
\* one bucket and changes it, in any interleaving.
NextRace ==
    \/ \E r \in {1} :
          \/ StartFetch(r)
          \/ GetCached(r)
          \/ LoadBuckets(r)
          \/ GenerateBucketEmbedding(r)
          \/ PersistBucketEmbedding(r)
          \/ Complete(r)
    \/ \E r \in {2} :
          \/ StartPostBucket(r) /\ buckets = <<>>
          \/ PostBucketOrder(r)
          \/ PostBucketEmbed(r)
          \/ PostBucketCreate(r)
          \/ StartPatchBucket(r)
          \/ PatchBucketUpdate(r)
          \/ PatchBucketEmbed(r)
          \/ PatchBucketPersist(r)
          \/ Complete(r)

SpecRace == InitBuckets /\ [][NextRace]_vars

\* The steps of POST /api/plans/:id/ideas outside classifyIdeaIntoBucket.
RouteStep(r) ==
    \/ StartPostIdea(r)
    \/ PostIdeaCreate(r)
    \/ PostIdeaEmbed(r)
    \/ PostIdeaEmbedSave(r)
    \/ PostIdeaListIdeas(r)
    \/ PostIdeaListBuckets(r)
    \/ PostIdeaDebounce(r)
    \/ PostIdeaReread(r)
    \/ EmergentLLM(r)
    \/ EmergentCreate(r)
    \/ EmergentEmbed(r)
    \/ EmergentPersist(r)
    \/ EmergentAssign(r)
    \/ GeneralCreate(r)
    \/ GeneralAssign(r)
    \/ PostIdeaRefetch(r)
    \/ Complete(r)

\* Idea submissions into an empty plan, one request at a time.
NextScenario == \E r \in {1} : RouteStep(r)

SpecScenario == Init /\ [][NextScenario]_vars

\* Every operation of the LLM reasoner, one request at a time: direct calls
\* of classifyIdeaIntoBucket on a plan that receives no idea, or idea
\* submissions into a plan whose buckets only emergent creation makes.
NextReasoner ==
    \/ ideas = <<>> /\ req[1].kind # "postIdea" /\ NextClassify
    \/ /\ now = 0 /\ (buckets = <<>> \/ ideas # <<>>)
       /\ req[1].kind \in {"idle", "postIdea"}
       /\ NextScenario

SpecReasoner == Init /\ [][NextReasoner]_vars

\* The buckets tables of a plan that has buckets when the process starts: each
\* row without a stored vector or with the vector of its text.
PlanTables ==
    UNION {{bs \in [1..n -> UNION {StoredRows(id) : id \in 1..n}] :
               \A id \in 1..n :
                  /\ bs[id].id = id
                  /\ bs[id].embedding \in
                        {Null, EmbeddingOf(buildBucketEmbeddingText(bs[id]))}} :
              n \in 1..MaxBuckets}

InitSubmit ==
    /\ buckets \in PlanTables
    /\ ideas = <<>>
    /\ cache = <<>>
    /\ now = 0
    /\ apiKeySet \in BOOLEAN
    /\ useEmbeddings \in BOOLEAN
    /\ req = [r \in Requests |-> IdleReq]
    /\ trip = [id \in 1..Len(buckets) |-> 0]
    /\ autoWrites = <<>>
    /\ requests = [ip \in ClientKeys |-> <<>>]
    /\ admitted = [ip \in ClientKeys |-> <<>>]
    /\ plan = Some(0)
    /\ planCache = <<>>

\* The submission of a plan's first idea, with or without an explicit bucket,
\* into a plan that has buckets.
NextSubmit ==
    \E r \in {1} :
          \/ StartPostIdeaWithConfidence(r) /\ ideas = <<>>
          \/ PostIdeaCreate(r)
          \/ PostIdeaEmbed(r)
          \/ PostIdeaEmbedSave(r)
          \/ PostIdeaListIdeas(r)
          \/ PostIdeaListBuckets(r)
          \/ GetCached(r)
          \/ LoadBuckets(r)
          \/ GenerateBucketEmbedding(r)
          \/ PersistBucketEmbedding(r)
          \/ EmbedIdea(r)
          \/ TieBreak(r)
          \/ NewCategory(r)
          \/ FullClassification(r)
          \/ NewBucketCreate(r)
          \/ NewBucketEmbed(r)
          \/ NewBucketPersist(r)
          \/ PostIdeaAssign(r)
          \/ PostIdeaRefetch(r)
          \/ Complete(r)

SpecSubmit == InitSubmit /\ [][NextSubmit]_vars

\* Direct calls of classifyIdeaIntoBucket in slot 1 on a plan that has one
\* bucket, while slot 2 creates a second bucket through the buckets route, in
\* any interleaving: the caller's existingBuckets can be older than the map.
InitStale ==
    /\ InitSubmit
    /\ Len(buckets) = 1
    /\ buckets[1].embedding # Null
    /\ apiKeySet
    /\ useEmbeddings

NextStale ==
    \/ \E r \in {1} :
          \/ StartClassify(r)
          \/ GetCached(r)
          \/ LoadBuckets(r)
          \/ GenerateBucketEmbedding(r)
          \/ PersistBucketEmbedding(r)
          \/ EmbedIdea(r)
          \/ TieBreak(r)
          \/ NewCategory(r)
          \/ FullClassification(r)
          \/ NewBucketCreate(r)
          \/ NewBucketEmbed(r)
          \/ NewBucketPersist(r)
          \/ Complete(r)
    \/ \E r \in {2} :
          \/ StartPostBucket(r)
          \/ PostBucketOrder(r)
          \/ PostBucketEmbed(r)
          \/ PostBucketCreate(r)
          \/ Complete(r)

SpecStale == InitStale /\ [][NextStale]_vars

\* Idea submissions in any interleaving, with the embedding provider not
\* configured (no OPENAI_API_KEY: generateEmbedding throws) and
\* USE_EMBEDDINGS_CLASSIFICATION=false (classification by the LLM alone).
NextIdeas ==
    \E r \in Requests :
          \/ StartPostIdea(r)
          \/ PostIdeaCreate(r)
          \/ PostIdeaEmbed(r)
          \/ PostIdeaListIdeas(r)
          \/ PostIdeaListBuckets(r)
          \/ PostIdeaDebounce(r)
          \/ PostIdeaReread(r)
          \/ EmergentLLM(r)
          \/ EmergentCreate(r)
          \/ EmergentEmbed(r)
          \/ EmergentAssign(r)
          \/ GeneralCreate(r)
          \/ GeneralAssign(r)
          \/ FullClassification(r)
          \/ NewBucketCreate(r)
          \/ NewBucketEmbed(r)
          \/ PostIdeaAssign(r)
          \/ PostIdeaRefetch(r)
          \/ Complete(r)

InitIdeas == Init /\ ~apiKeySet /\ ~useEmbeddings

SpecIdeas == InitIdeas /\ [][NextIdeas]_vars

\* ---- properties of classifyIdeaIntoBucket --------------------------------
\* A direct call of classifyIdeaIntoBucket has terminated.
ClassifyDone(r) == req[r].kind = "classify" /\ req[r].pc = "done"

\* C1: classifyIdeaIntoBucket never raises to its caller: whatever the idea,
\* the list of existing buckets (the empty list included) and the failures of
\* the providers and of storage, the call ends by returning a result.
ClassifyNeverRaises ==
    \A r \in Requests : ClassifyDone(r) => req[r].status = "ok" /\ req[r].result # Null

\* The tiers of classifyWithLLM, in the order in which they may run.
TierOrders == {<<"full">>, <<"full", "pattern">>, <<"full", "pattern", "default">>}

\* The embedding provider was called during the call and threw every time.
ProviderAlwaysThrew(r) == req[r].provider = {"threw"}

\* C2: when every call of the embedding provider throws, classifyIdeaIntoBucket
\* still returns a result, reached through the tiers in the order LLM
\* fallback, pattern match, default bucket; when the LLM tier failed and the
\* pattern match found nothing, the result is exactly the first existing
\* bucket with confidence 40 and isNewBucket false.
ProviderDownStillClassifies ==
    \A r \in Requests :
        ClassifyDone(r) /\ ProviderAlwaysThrew(r) =>
            /\ req[r].status = "ok"
            /\ req[r].result # Null
            /\ req[r].trace \in TierOrders
            /\ req[r].trace = <<"full", "pattern", "default">> =>
                   req[r].result[1] = [bucketId |-> req[r].existing[1].id,
                                       confidence |-> 40, isNewBucket |-> FALSE]

\* The provider threw and both the LLM tier and the pattern match failed, with
\* two existing buckets.
ProviderDownDefaultReached ==
    \E r \in Requests :
        /\ ClassifyDone(r) /\ ProviderAlwaysThrew(r)
        /\ Len(req[r].existing) = 2
        /\ req[r].trace = <<"full", "pattern", "default">>
        /\ req[r].result = Some([bucketId |-> req[r].existing[1].id,
                                 confidence |-> 40, isNewBucket |-> FALSE])

\* C3: when the best similarity is below MIN_SIMILARITY, the returned bucketId
\* is always a bucket created during this call, never one that existed
\* before, whatever the new-category LLM operation did.
NoMatchNeverAssignsExisting ==
    \A r \in Requests :
        ClassifyDone(r) /\ req[r].scored # <<>>
            /\ req[r].scored[1].similarity < MIN_SIMILARITY =>
                /\ req[r].status = "ok"
                /\ req[r].result # Null
                /\ req[r].result[1].bucketId \in req[r].created

\* C10: when the tie set holds exactly one scored bucket and its similarity
\* is at least MIN_SIMILARITY, the call returns that bucket with confidence
\* similarityToConfidence(best) and isNewBucket false without any LLM
\* operation; a single bucket of similarity 1.0 is returned with confidence 95.
ClearWinnerReturned ==
    \A r \in Requests :
        ClassifyDone(r) /\ req[r].scored # <<>>
            /\ req[r].scored[1].similarity >= MIN_SIMILARITY
            /\ Len(Tied(req[r].scored)) = 1 =>
                /\ req[r].result =
                       Some([bucketId |-> req[r].scored[1].id,
                             confidence |-> similarityToConfidence(req[r].scored[1].similarity),
                             isNewBucket |-> FALSE])
                /\ req[r].trace = <<>>
                /\ Len(req[r].scored) = 1 /\ req[r].scored[1].similarity = Unit =>
                       req[r].result[1].confidence = 95

\* A call returned the single bucket of a plan, of similarity 1.0.
ClearWinnerIdentical ==
    \E r \in Requests :
        /\ ClassifyDone(r)
        /\ Len(req[r].scored) = 1
        /\ req[r].scored[1].similarity = Unit
        /\ req[r].result = Some([bucketId |-> req[r].scored[1].id, confidence |-> 95,
                                 isNewBucket |-> FALSE])

\* The scored entries within TIE_THRESHOLD of the best, the boundary included.
WithinThreshold(scored) ==
    {k \in 1..Len(scored) : scored[1].similarity - scored[k].similarity <= TIE_THRESHOLD}

\* The call scored its buckets and the best reaches MIN_SIMILARITY.
ScoredAMatch(r) ==
    /\ ClassifyDone(r)
    /\ req[r].scored # <<>>
    /\ req[r].scored[1].similarity >= MIN_SIMILARITY

\* C11: the tie set is exactly the set of scored buckets whose similarity s
\* has best - s <= TIE_THRESHOLD, the boundary included: with two or more
\* such buckets the tie-break path is taken and returns one of them, with
\* one the clear-winner path.
TieSetInclusive ==
    \A r \in Requests :
        ScoredAMatch(r) =>
            LET scored == req[r].scored
                within == WithinThreshold(scored)
                tied == Tied(scored)
            IN  /\ {tied[k].id : k \in 1..Len(tied)} = {scored[k].id : k \in within}
                /\ Cardinality(within) > 1 =>
                       /\ req[r].trace # <<>> /\ req[r].trace[1] = "tie"
                       /\ "tie_breaker" \in req[r].counted
                       /\ req[r].result[1].bucketId \in {scored[k].id : k \in within}
                /\ Cardinality(within) = 1 =>
                       /\ req[r].trace = <<>>
                       /\ "embedding_only" \in req[r].counted

\* Two buckets whose similarities differ by exactly TIE_THRESHOLD went to the
\* tie-break, which chose the lower one.
TieAtBoundary ==
    \E r \in Requests :
        /\ ScoredAMatch(r)
        /\ Len(req[r].scored) = 2
        /\ req[r].scored[1].similarity - req[r].scored[2].similarity = TIE_THRESHOLD
        /\ req[r].trace = <<"tie">>
        /\ req[r].result[1].bucketId = req[r].scored[2].id

\* C12: when the tie set holds more than one bucket, the returned bucket is
\* one the LLM tie-break selected, also when the tie-break call fails or
\* its answer is malformed: classifyIdeaIntoBucket never picks a tied
\* bucket itself.
TieResolvedByLLM ==
    \A r \in Requests :
        ScoredAMatch(r) /\ Len(Tied(req[r].scored)) > 1 =>
            /\ "tie" \notin req[r].failed
            /\ req[r].trace = <<"tie">>

\* C14: every result classifyIdeaIntoBucket returns carries a confidence in
\* [0, 100].
ConfidenceInRange ==
    \A r \in Requests :
        ClassifyDone(r) /\ req[r].result # Null =>
            req[r].result[1].confidence \in 0..100

\* C15: getCached never returns an entry more than the TTL after setCache
\* stored it: such an entry is deleted and the buckets are read from storage.
EntryNotServedAfterTTL ==
    \A r \in Requests :
        req[r].cached # Null /\ req[r].cached[1].late =>
            /\ ~req[r].cached[1].served
            /\ req[r].pc = "gbec_list" => cache = <<>>

\* A call found an entry older than the TTL and read the buckets from storage.
ExpiredEntryReloaded ==
    \E r \in Requests :
        /\ ClassifyDone(r)
        /\ req[r].cached = Some([late |-> TRUE, served |-> FALSE])
        /\ req[r].loaded # <<>>

\* The entry guard applies to the call: embeddings classification is
\* disabled or the list of existing buckets is empty.
Guarded(r) ==
    /\ req[r].kind = "classify"
    /\ ~useEmbeddings \/ req[r].existing = <<>>

\* The call went straight to the full LLM classification: no cache read, no
\* similarity, no step of the embeddings path.
StraightToLLM(r) ==
    /\ req[r].cached = Null
    /\ req[r].map = EmptyMap
    /\ req[r].scored = <<>>
    /\ req[r].counted = {"total", "llm_only"}
    /\ req[r].pc \in {"llm_call", "nb_create", "nb_embed", "nb_persist", "done"}
    /\ req[r].trace # <<>> => req[r].trace[1] = "full"

\* C16, as stated: under the entry guard the call goes straight to the full
\* LLM classification and makes no embedding provider call at all.
GuardMakesNoProviderCall ==
    \A r \in Requests : Guarded(r) => StraightToLLM(r) /\ req[r].provider = {}

\* C16, amended: under the entry guard the call goes straight to the full
\* LLM classification; the only embedding provider call it can make is the
\* best-effort embedding of a bucket that this classification created.
GuardGoesStraightToLLM ==
    \A r \in Requests :
        Guarded(r) =>
            /\ StraightToLLM(r)
            /\ req[r].provider # {} => req[r].created # {}

\* A guarded call created a bucket and asked the provider for its embedding.
GuardEmbedsCreatedBucket ==
    \E r \in Requests :
        /\ ClassifyDone(r) /\ Guarded(r)
        /\ req[r].status = "ok"
        /\ req[r].provider # {}
        /\ req[r].created # {}

\* The number of full LLM classification prompts the request issued.
FullCalls(r) ==
    Cardinality({k \in 1..Len(req[r].trace) : req[r].trace[k] = "full"})

LLMOperations == {"full", "tie", "new", "emergent"}

\* The fallback tier that follows an operation of the LLM reasoner.
NextTier(operation) ==
    CASE operation = "new" -> "full"
      [] operation = "full" -> "pattern"
      [] operation = "tie" -> "top"
      [] operation = "emergent" -> "general"

\* The position of the request when the next tier is about to run.
NextTierPending(operation) ==
    CASE operation = "new" -> "llm_call"
      [] operation = "emergent" -> "em_general"
      [] OTHER -> "none"

CountersAddUp ==
    \A r \in Requests :
        ClassifyDone(r) =>
            /\ "total" \in req[r].counted
            /\ Cardinality(req[r].counted \ {"total"}) = 1

\* ---- properties of similarityToConfidence -------------------------------
\* C13: similarityToConfidence is non-decreasing and returns an integer in
\* [35, 95]: 35 for every s <= MIN_SIMILARITY and 95 for s = 1.0.
ConfidenceMonotoneBounded ==
    \A r \in Requests :
        req[r].kind = "confidence" =>
            /\ req[r].args[1] <= req[r].args[2] => req[r].ret[1] <= req[r].ret[2]
            /\ \A k \in 1..2 :
                   /\ req[r].ret[k] \in 35..95
                   /\ req[r].args[k] <= MIN_SIMILARITY => req[r].ret[k] = 35
                   /\ req[r].args[k] = Unit => req[r].ret[k] = 95

\* The function was applied to the scores 0 and 1.0.
ConfidenceEndpoints ==
    \E r \in Requests :
        /\ req[r].kind = "confidence"
        /\ req[r].args = <<0, Unit>>
        /\ req[r].ret = <<35, 95>>

\* ---- properties of the bucket operations ---------------------------------
\* The vector generateEmbedding derives from the bucket's current text.
CurrentVector(id) == EmbeddingOf(buildBucketEmbeddingText(buckets[id]))

\* C4: sequential round trip: a bucket is created, its vector fetched through
\* getBucketEmbeddingsCached, its title updated through PATCH, and the vectors
\* fetched again: the second fetch returns for that bucket the vector of the
\* new title, never the one of the old title, also when the regeneration
\* inside PATCH failed.
RoundTripFresh ==
    \A r \in Requests :
        req[r].kind = "fetch" /\ req[r].pc = "done" /\ req[r].status = "ok" =>
            \A id \in DOMAIN req[r].map :
                trip[id] = 2 => req[r].map[id] = CurrentVector(id)

\* No bucket operation is in progress.
Quiescent == \A r \in Requests : req[r].pc \in {"idle", "done"}

\* C6: after a bucket operation completed, a bucket whose persisted embedding
\* is set has the embedding of its current title and description: no
\* completed PATCH leaves the embedding of the old text in storage.
PersistedEmbeddingCurrent ==
    Quiescent =>
        \A id \in 1..Len(buckets) :
            buckets[id].embedding # Null => buckets[id].embedding = CurrentVector(id)

\* ---- properties of idea submission ---------------------------------------
\* A POST ideas request without bucketId has sent its 201 response.
SubmissionDone(r) ==
    /\ req[r].kind = "postIdea" /\ req[r].pc = "done" /\ req[r].status = "ok"
    /\ req[r].bucketId = Null

\* C5: every operation that creates a bucket or changes a bucket's title or
\* description has called invalidateCache before it returns, on every path
\* on which the bucket was created or changed.
InvalidatedBeforeReturn ==
    \A r \in Requests : req[r].pc = "done" /\ req[r].status = "ok" => ~req[r].dirty

\* C7: the automatic path writes an idea's bucket_id at most once.
AssignedAtMostOnce == \A id \in 1..Len(autoWrites) : autoWrites[id] <= 1

\* The first idea of an empty plan: unbucketed, nothing attempted.
FirstIdeaLeftAlone(r) ==
    req[r].nIdeas = 1 /\ req[r].existing = <<>> =>
        /\ ideas[req[r].ideaId].bucket_id = 0
        /\ req[r].trace = <<>>
        /\ req[r].emStart = Null

\* The second idea of an empty plan: the debounce, then the emergent batch
\* over both ideas.
SecondIdeaBatched(r) ==
    /\ Len(req[r].trace) >= 2
    /\ req[r].trace[1] = "debounce" /\ req[r].trace[2] = "emergent"
    /\ Len(req[r].batch) = 2

\* C8, as stated: in a plan with no bucket the first idea stays unbucketed
\* and nothing is classified; the second idea runs emergent creation after
\* the debounce, and when that request completes both ideas are each
\* assigned to one of the buckets created by that run.
ScenarioBothAssigned ==
    \A r \in Requests :
        SubmissionDone(r) =>
            /\ FirstIdeaLeftAlone(r)
            /\ req[r].nIdeas = 2 /\ req[r].existing = <<>> =>
                   /\ SecondIdeaBatched(r)
                   /\ \A k \in 1..Len(req[r].batch) :
                          ideas[req[r].batch[k]].bucket_id \in req[r].created

\* C8, amended: as above, but when the request of the second idea completes
\* each of the two ideas is either assigned to one of the buckets created by
\* that run or, if the categories of the LLM do not list it, still
\* unbucketed; after the General fallback both are assigned.
ScenarioAssignedOrUnbucketed ==
    \A r \in Requests :
        SubmissionDone(r) =>
            /\ FirstIdeaLeftAlone(r)
            /\ req[r].nIdeas = 2 /\ req[r].existing = <<>> =>
                   /\ SecondIdeaBatched(r)
                   /\ \A k \in 1..Len(req[r].batch) :
                          LET bucket_id == ideas[req[r].batch[k]].bucket_id
                          IN  /\ bucket_id \in req[r].created \cup {0}
                              /\ req[r].trace[Len(req[r].trace)] = "general" =>
                                     bucket_id \in req[r].created

\* The request of the second idea completed with both ideas in buckets that
\* its emergent run created.
ScenarioBothAssignedReached ==
    \E r \in Requests :
        /\ SubmissionDone(r)
        /\ req[r].nIdeas = 2 /\ req[r].existing = <<>>
        /\ req[r].trace = <<"debounce", "emergent">>
        /\ \A k \in 1..Len(req[r].batch) :
               ideas[req[r].batch[k]].bucket_id \in req[r].created

\* C9, as stated: createEmergentBuckets only executes for a plan that has at
\* least 2 ideas and no bucket at the moment it executes.
EmergentOnlyOnEmptyPlan ==
    \A r \in Requests :
        req[r].emStart # Null =>
            req[r].emStart[1].ideas >= 2 /\ req[r].emStart[1].buckets = 0

\* C9, amended: createEmergentBuckets only executes in a request whose gate,
\* checked before the debounce delay, saw at least 2 ideas and no bucket; the
\* buckets are not read again after the delay.
EmergentOnlyAfterGate ==
    \A r \in Requests :
        req[r].emStart # Null =>
            /\ req[r].nIdeas >= 2
            /\ req[r].existing = <<>>
            /\ "debounce" \in {req[r].trace[k] : k \in 1..Len(req[r].trace)}

\* An emergent batch started in a plan that had a bucket by then.
EmergentStartedAfterRace ==
    \E r \in Requests : req[r].emStart # Null /\ req[r].emStart[1].buckets > 0

\* C17: a call of getBucketEmbeddingsCached that starts when a bucket is
\* settled (its text change was persisted and invalidated) and during which
\* the text stays the same returns for it the vector of that text: a
\* population that was in flight during the change does not re-install the
\* old vector.
NoStaleAfterInvalidation ==
    \A r \in Requests :
        req[r].kind = "fetch" /\ req[r].pc = "done" /\ req[r].status = "ok" =>
            \A id \in DOMAIN req[r].snap \cap DOMAIN req[r].map :
                req[r].map[id] = EmbeddingOf(req[r].snap[id])

\* ---- properties of the paths without an embedding signal -------------------
\* A call that took the embeddings path, received the bucket embeddings and
\* left the path without a score: no path counter beside the total.
NoBucketScored(r) ==
    /\ req[r].kind = "classify"
    /\ req[r].counted = {"total"}
    /\ req[r].pc \notin {"gbec_get", "gbec_list", "gbec_gen", "gbec_persist",
                          "embed_idea"}

\* C21: when no bucket could be scored, classifyIdeaIntoBucket falls back to
\* the new-category proposal (createNewBucketForIdea): the first LLM operation
\* of such a call is the new-category prompt.
NoScoreProposesNewCategory ==
    \A r \in Requests :
        NoBucketScored(r) /\ req[r].trace # <<>> => req[r].trace[1] = "new"

\* ---- properties of the tie-break ------------------------------------------
\* The tie-break of the call in r was answered and the call returned.
TieBroken(r) == req[r].answer # Null /\ req[r].result # Null

\* C22: the bucket the tie-break returns is a member of the tie set, the
\* orchestrator returns that bucket with the confidence of its own
\* similarity, an index in range selects the bucket at that index, and an
\* index that is out of range or missing selects the first tied bucket
\* without an error.
TieBreakReturnsTiedBucket ==
    \A r \in Requests :
        TieBroken(r) =>
            LET tied == Tied(req[r].scored)
                answer == req[r].answer[1]
                res == req[r].result[1]
            IN  /\ req[r].status # "raised"
                /\ res.isNewBucket = FALSE
                /\ \E k \in 1..Len(tied) :
                      /\ tied[k].id = res.bucketId
                      /\ res.confidence = similarityToConfidence(tied[k].similarity)
                /\ answer # Null /\ answer[1] \in 1..Len(tied) =>
                      res.bucketId = tied[answer[1]].id
                /\ answer # Null /\ answer[1] \notin 1..Len(tied) =>
                      res.bucketId = tied[1].id

\* An index above the size of a tie set of two buckets with different
\* similarities was answered, and the call returned the better bucket.
TieIndexOutOfRange ==
    \E r \in Requests :
        /\ TieBroken(r)
        /\ ClassifyDone(r)
        /\ Len(Tied(req[r].scored)) = 2
        /\ req[r].answer[1] = Some(3)
        /\ req[r].scored[1].similarity > req[r].scored[2].similarity
        /\ req[r].result[1].bucketId = req[r].scored[1].id

\* ---- properties of attemptPatternMatch ------------------------------------
\* The number of keywords of a pattern among the words of the idea.
Hits(idea, pattern) ==
    Cardinality({w \in pattern.keywords : w \in WordsOf(idea.title \o idea.description)})

\* C23: attemptPatternMatch returns a bucket whose number of keyword hits is
\* the greatest, with confidence min(50 + 10 * hits, 90), when that bucket has
\* at least 2 hits, and no match otherwise.
PatternMatchIsBest ==
    \A r \in Requests :
        req[r].kind = "pattern" /\ req[r].pc = "done" =>
            LET idea == req[r].args[1]
                patterns == req[r].args[2]
                match == req[r].ret[1]
                most(i) == \A j \in 1..Len(patterns) :
                               Hits(idea, patterns[j]) <= Hits(idea, patterns[i])
            IN  IF \E i \in 1..Len(patterns) : Hits(idea, patterns[i]) >= 2
                THEN /\ match # Null
                     /\ \E i \in 1..Len(patterns) :
                           /\ most(i)
                           /\ match[1].bucketId = patterns[i].bucketId
                           /\ match[1].confidence = Min(50 + 10 * Hits(idea, patterns[i]), 90)
                ELSE match = Null

\* ---- properties of cache population ---------------------------------------
\* A direct call of getBucketEmbeddingsCached returned a map it populated.
Populated(r) ==
    /\ req[r].kind = "fetch"
    /\ req[r].pc = "done"
    /\ req[r].status = "ok"
    /\ req[r].cached # Null
    /\ ~req[r].cached[1].served

\* The ids of the buckets the call in r loaded.
LoadedIds(r) == {req[r].loaded[k].id : k \in 1..Len(req[r].loaded)}

\* C24: a failure of generateEmbedding for a bucket during population
\* excludes that bucket only: the call does not raise and returns a map with
\* a vector for every other bucket, the empty map when the plan has no
\* bucket or every generation failed.
PopulationSkipsOnlyFailed ==
    \A r \in Requests :
        /\ req[r].kind = "fetch" /\ req[r].skipped # {} => req[r].status # "error"
        /\ Populated(r) => DOMAIN req[r].map = LoadedIds(r) \ req[r].skipped

\* The generation failed for the first of two buckets and the returned map
\* holds the vector of the second.
PopulationWentOnAfterFailure ==
    \E r \in Requests :
        /\ Populated(r)
        /\ Len(req[r].loaded) = 2
        /\ req[r].skipped = {req[r].loaded[1].id}
        /\ DOMAIN req[r].map = {req[r].loaded[2].id}

\* C25: when updateBucket fails for a generated bucket embedding during
\* population, the call does not raise and the generated vector is in the
\* map it returns.
UnpersistedVectorReturned ==
    \A r \in Requests :
        req[r].kind = "fetch" /\ req[r].unsaved # {} =>
            /\ req[r].status # "error"
            /\ \A k \in 1..Len(req[r].loaded) :
                  req[r].loaded[k].id \in req[r].unsaved =>
                      /\ req[r].loaded[k].id \in DOMAIN req[r].map
                      /\ req[r].map[req[r].loaded[k].id]
                            = EmbeddingOf(buildBucketEmbeddingText(req[r].loaded[k]))

\* A call returned the vector of a bucket whose row still has no embedding.
UnpersistedVectorInMap ==
    \E r \in Requests :
        /\ Populated(r)
        /\ \E id \in req[r].unsaved :
              /\ id \in DOMAIN req[r].map
              /\ buckets[id].embedding = Null

\* The bucket row was loaded with an embedding of another dimension.
WrongDimension(bucket) ==
    bucket.embedding # Null /\ Len(bucket.embedding) # EXPECTED_DIM

\* C26: every vector of a map that getBucketEmbeddingsCached returns or
\* caches has EXPECTED_DIM components; a stored embedding of another
\* dimension is never in the map: the bucket's vector is generated from its
\* text, and the bucket is left out when that generation fails.
MapVectorsHaveDimension ==
    /\ cache # <<>> =>
          \A id \in DOMAIN cache[1].data : Len(cache[1].data[id]) = EXPECTED_DIM
    /\ \A r \in Requests :
          req[r].kind = "fetch" =>
              /\ \A id \in DOMAIN req[r].map : Len(req[r].map[id]) = EXPECTED_DIM
              /\ Populated(r) =>
                    \A k \in 1..Len(req[r].loaded) :
                        LET bucket == req[r].loaded[k]
                        IN  WrongDimension(bucket) =>
                                IF bucket.id \in DOMAIN req[r].map
                                THEN req[r].map[bucket.id]
                                        = EmbeddingOf(buildBucketEmbeddingText(bucket))
                                ELSE bucket.id \in req[r].skipped

\* A call loaded a bucket whose stored embedding has one component too many
\* and returned the vector of the bucket's text for it.
StoredVectorRegenerated ==
    \E r \in Requests :
        /\ Populated(r)
        /\ \E k \in 1..Len(req[r].loaded) :
              /\ Len(req[r].loaded[k].embedding) = EXPECTED_DIM + 1
              /\ req[r].loaded[k].id \in DOMAIN req[r].map
              /\ req[r].map[req[r].loaded[k].id]
                    = EmbeddingOf(buildBucketEmbeddingText(req[r].loaded[k]))

\* ---- properties of createEmergentBuckets ----------------------------------
\* The tiers and operations the request in r went through.
TraceSet(r) == {req[r].trace[k] : k \in 1..Len(req[r].trace)}

\* createEmergentBuckets was called by the request in r and has been left.
AfterEmergent(r) ==
    /\ req[r].kind = "postIdea"
    /\ req[r].emStart # Null
    /\ req[r].pc \in {"pi_refetch", "done"}

\* An idea of the batch that no idea_assignments list names was not written.
UnmentionedUntouched(r) ==
    \A k \in 1..Len(req[r].batch) :
        k \notin req[r].mentioned =>
            /\ ideas[req[r].batch[k]].bucket_id = 0
            /\ autoWrites[req[r].batch[k]] = 0

CreatedBucketOutcome(rec) ==
    [bucketId |-> rec.newId,
     confidence |-> IF rec.op = "new" \/ rec.conf = Null THEN 75 ELSE rec.conf[1],
     isNewBucket |-> TRUE]

\* The new-category proposal or the full classification created a bucket and
\* the call returned: the result is that bucket's, whatever the embedding did.
NewBucketOutcomeKept ==
    \A r \in Requests :
        req[r].kind = "classify" /\ req[r].newId # 0 /\ req[r].pc = "done" =>
            /\ req[r].status = "ok"
            /\ req[r].result = Some(CreatedBucketOutcome(req[r]))

\* A step of createEmergentBuckets from the embedding of a bucket it created
\* goes on with the assignments, the next category or the return: it does not
\* enter the fallback, and the buckets created so far stay the same.
EmergentEmbeddingStep ==
    \A r \in Requests :
        req[r].pc \in {"em_embed", "em_persist"} =>
            /\ req'[r].pc \in {"em_embed", "em_persist", "em_assign", "em_create",
                               "pi_refetch"}
            /\ req'[r].created = req[r].created
            /\ req'[r].trace = req[r].trace

\* C28: a failure to generate or persist the embedding of a bucket that a
\* Reasoner operation created does not change the operation's outcome: the
\* new-category proposal and the full classification return the created
\* bucket with its confidence and isNewBucket = TRUE, and emergent creation
\* goes on as after a stored embedding.
EmbeddingFailureKeepsOutcome == []NewBucketOutcomeKept /\ [][EmergentEmbeddingStep]_vars

\* The new-category proposal returned the bucket it created while the
\* bucket's row has no embedding.
NewBucketReturnedUnembedded ==
    \E r \in Requests :
        /\ ClassifyDone(r)
        /\ req[r].trace = <<"new">>
        /\ req[r].result = Some([bucketId |-> req[r].newId, confidence |-> 75,
                                 isNewBucket |-> TRUE])
        /\ buckets[req[r].newId].embedding = Null

\* ---- properties of the failure policy -------------------------------------
\* C29: an error inside a Reasoner operation (tie-break, new-category
\* proposal, full classification) leaves the operation and is handled by the
\* error edge of classifyIdeaIntoBucket, which counts an LLM fallback: no
\* operation catches its own failure and returns a substitute result.
ReasonerErrorsReachOrchestrator ==
    \A r \in Requests :
        ClassifyDone(r) /\ req[r].failed # {} => "llm_fallback" \in req[r].counted

\* ---- properties of generateEmbedding --------------------------------------
\* The text is empty or white space only.
Blank(text) == \A i \in 1..Len(text) : text[i] = " "

\* C30: generateEmbedding fails before any provider call and with the usage
\* counters unchanged when the trimmed text is empty or no credential is
\* configured, and the counters have no influence on what the call returns:
\* with any other counters the result is the same, and it is one of the
\* outcomes the classification steps account for.
GuardsFailBeforeProvider ==
    \A r \in Requests :
        req[r].kind = "embed" /\ req[r].pc = "done" =>
            LET text == req[r].args[1]
                before == req[r].args[2]
                answer == req[r].args[3]
                out == req[r].ret[1]
            IN  /\ Blank(text) \/ ~apiKeySet =>
                      /\ out.result = Null
                      /\ ~out.called
                      /\ out.stats = before
                /\ \A other \in ReachableStats(MaxCalls) :
                      /\ generateEmbeddingCall(text, other, answer).result = out.result
                      /\ generateEmbeddingCall(text, other, answer).error = out.error
                /\ ~Blank(text) => out.result \in generateEmbedding(Trim(text))

\* A call with a text of white space, the credential configured and counters
\* that have counted a call failed without a provider call.
BlankTextRejected ==
    \E r \in Requests :
        /\ req[r].kind = "embed" /\ req[r].pc = "done"
        /\ apiKeySet
        /\ req[r].args[1] = <<" ">>
        /\ req[r].args[2].calls = 1
        /\ req[r].ret[1].error = "empty"
        /\ ~req[r].ret[1].called
        /\ req[r].ret[1].stats = req[r].args[2]

\* ---- properties of cosineSimilarity ---------------------------------------
\* The sum of the squares of the components.
SquaredNorm(v) == DotUpTo(v, v, Len(v))

\* C31: cosineSimilarity(a, b) fails exactly when the lengths of a and b
\* differ; for two vectors of the same length, whatever that length, it
\* returns a value, which is 0 when either vector has zero norm.
CosineFailsOnlyOnMismatch ==
    \A r \in Requests :
        req[r].kind = "cosine" /\ req[r].pc = "done" =>
            LET a == req[r].args[1]
                b == req[r].args[2]
                similarity == req[r].ret[1]
            IN  /\ similarity = Null <=> Len(a) # Len(b)
                /\ Len(a) = Len(b) /\ (SquaredNorm(a) = 0 \/ SquaredNorm(b) = 0)
                      => similarity = Some(0)

\* ---- properties of the idea's embedding -----------------------------------
\* C32: during one POST /api/plans/:id/ideas the embedding provider is called
\* at most once for the text of the idea the request creates.
IdeaEmbeddedAtMostOnce ==
    \A r \in Requests : req[r].kind = "postIdea" => req[r].ideaAsks <= 1

\* ---- properties of the classification result ------------------------------
\* C33: in every result of classifyIdeaIntoBucket, isNewBucket is true if and
\* only if bucketId names a bucket the call created in storage.
IsNewBucketIffCreated ==
    \A r \in Requests :
        ClassifyDone(r) /\ req[r].result # Null =>
            (req[r].result[1].isNewBucket <=> req[r].result[1].bucketId \in req[r].created)

\* ---- properties of the list createEmergentBuckets returns -----------------
\* The ids in a list of bucket ids.
IdsOf(list) == {list[k] : k \in 1..Len(list)}

\* C34: the list of buckets createEmergentBuckets returns is exactly the set
\* of buckets the call created in storage, and no idea is left assigned to a
\* bucket the call created and did not return.
EmergentReturnsWhatItCreated ==
    \A r \in Requests :
        req[r].returned # Null =>
            /\ IdsOf(req[r].returned[1]) = req[r].created
            /\ \A id \in 1..Len(ideas) :
                  ideas[id].bucket_id \in req[r].created =>
                      ideas[id].bucket_id \in IdsOf(req[r].returned[1])

\* ---- properties of results naming an existing bucket ----------------------
\* The ids of the buckets the caller passed as existingBuckets.
ExistingIds(r) == {req[r].existing[k].id : k \in 1..Len(req[r].existing)}

\* C35: a result of classifyIdeaIntoBucket with isNewBucket = false names a
\* bucket of the existingBuckets the caller passed, also when the embedding
\* map holds a bucket that list does not.
ExistingResultFromCallersList ==
    \A r \in Requests :
        ClassifyDone(r) /\ req[r].result # Null /\ ~req[r].result[1].isNewBucket =>
            req[r].result[1].bucketId \in ExistingIds(r)

\* A call scored its idea against a map holding a bucket that was created
\* after the caller listed the buckets, and returned an existing bucket.
MapHeldUnlistedBucket ==
    \E r \in Requests :
        /\ ClassifyDone(r)
        /\ req[r].result # Null
        /\ ~req[r].result[1].isNewBucket
        /\ req[r].scored # <<>>
        /\ DOMAIN req[r].map \ ExistingIds(r) # {}

\* ---- properties of a cache hit --------------------------------------------
\* A step of request r out of getCached while the plan's entry exists and has
\* not expired.
HitStep(r) ==
    /\ req[r].pc = "gbec_get"
    /\ req'[r].pc # "gbec_get"
    /\ cache # <<>>
    /\ ~(now > cache[1].expires)

\* On a hit the caller receives the cached map as it is, whatever it holds,
\* without a read of the buckets, a provider call or a write.
HitReturnsCachedMap ==
    \A r \in Requests :
        HitStep(r) =>
            /\ req'[r].map = cache[1].data
            /\ req'[r].pc \notin {"gbec_list", "gbec_gen", "gbec_persist"}
            /\ req'[r].loaded = <<>>
            /\ req'[r].provider = {}
            /\ UNCHANGED <<buckets, cache>>

\* C36: on a cache hit getBucketEmbeddingsCached reads no bucket, calls no
\* provider and returns the cached map unchanged, also when the map is empty
\* or lacks a bucket whose embedding could not be generated.
CacheHitIsFrameOnly == [][HitReturnsCachedMap]_vars

\* A call was served an empty map from the cache while the caller's plan has
\* a bucket with a text: its embedding failed when the entry was populated.
EmptyMapServed ==
    \E r \in Requests :
        /\ req[r].cached # Null
        /\ req[r].cached[1].served
        /\ req[r].map = EmptyMap
        /\ req[r].existing # <<>>
        /\ cache # <<>>

\* ---- properties of the route's use of the classification ------------------
\* The idea the request created.
CreatedIdea(r) == ideas[req[r].ideaId]

\* The request named a bucket: no classification tier and no emergent creation
\* has run, and the idea is as createIdea wrote it.
ExplicitBucketKept(r) ==
    /\ req[r].trace = <<>>
    /\ req[r].counted = {}
    /\ req[r].result = Null
    /\ req[r].ideaId # 0 =>
          /\ CreatedIdea(r).bucket_id = req[r].bucketId[1]
          /\ CreatedIdea(r).confidence =
                (IF req[r].confidence = Null THEN 85 ELSE req[r].confidence[1])

\* The idea holds the bucketId and the confidence of the classification result.
ResultWritten(r) ==
    /\ req[r].result # Null
    /\ CreatedIdea(r).bucket_id = req[r].result[1].bucketId
    /\ CreatedIdea(r).confidence = req[r].result[1].confidence

\* The request named no bucket, found buckets in the plan and has ended.
AutomaticDone(r) ==
    /\ req[r].kind = "postIdea"
    /\ req[r].bucketId = Null
    /\ req[r].existing # <<>>
    /\ req[r].pc = "done"

\* C37 as stated: with an explicit bucketId nothing is classified and the
\* idea stays as created; without one, in a plan that has buckets, the idea
\* holds the result's bucketId and confidence once the request has ended.
RouteWritesResult ==
    \A r \in Requests :
        /\ req[r].kind = "postIdea" /\ req[r].bucketId # Null => ExplicitBucketKept(r)
        /\ AutomaticDone(r) /\ req[r].result # Null => ResultWritten(r)

\* C37, amended: the second half holds for the requests answered 201; when
\* the write of the result fails the idea stays as created.
RouteWritesResultOnSuccess ==
    \A r \in Requests :
        /\ req[r].kind = "postIdea" /\ req[r].bucketId # Null => ExplicitBucketKept(r)
        /\ AutomaticDone(r) /\ req[r].status = "ok" => ResultWritten(r)
        /\ AutomaticDone(r) /\ req[r].status # "ok" /\ req[r].ideaId # 0 =>
              \/ ResultWritten(r)
              \/ /\ CreatedIdea(r).bucket_id = 0
                 /\ CreatedIdea(r).confidence =
                       (IF req[r].confidence = Null THEN 85 ELSE req[r].confidence[1])

\* A request with a confidence of 0 in its body and no bucketId was answered
\* 201 after the result of the classification replaced both fields.
ResultReplacedRequestConfidence ==
    \E r \in Requests :
        /\ AutomaticDone(r)
        /\ req[r].status = "ok"
        /\ req[r].confidence = Some(0)
        /\ ResultWritten(r)
        /\ CreatedIdea(r).bucket_id # 0
        /\ CreatedIdea(r).confidence # 0

\* ---- properties of the rate limiter ---------------------------------------
\* The allowed requests in history whose timestamp lies in the window of
\* RATE_WINDOW_MS that ends at time t.
InWindow(history, t) ==
    {i \in 1..Len(history) :
        history[i].ts > t - RATE_WINDOW_MS /\ history[i].ts <= t}

\* The allowed requests of the key before the call the request made.
AdmittedBefore(r) ==
    LET history == admitted[req[r].args[1]]
    IN  IF req[r].ret[1] THEN SubSeq(history, 1, Len(history) - 1) ELSE history

\* C38: per client key rateLimit allows at most RATE_LIMIT requests in any
\* window of RATE_WINDOW_MS; a request is allowed exactly when fewer than
\* RATE_LIMIT allowed requests of its key lie in the window that ends at the
\* call, and the Map holds timestamps of allowed requests only.
RateLimitSlidingWindow ==
    /\ \A ip \in ClientKeys, t \in 0..MaxTime :
          Cardinality(InWindow(admitted[ip], t)) <= RATE_LIMIT
    /\ \A r \in Requests :
          req[r].kind = "limit" =>
              (req[r].ret[1] <=>
                  Cardinality(InWindow(AdmittedBefore(r), req[r].args[3])) < RATE_LIMIT)
    /\ \A ip \in ClientKeys :
          LET skip == Len(admitted[ip]) - Len(requests[ip])
          IN  /\ skip >= 0
              /\ \A i \in 1..Len(requests[ip]) :
                    requests[ip][i] = admitted[ip][skip + i].ts

\* A key's request was allowed at the instant the oldest of RATE_LIMIT earlier
\* allowed requests left the window.
AdmittedAsWindowSlid ==
    \E r \in Requests :
        /\ req[r].kind = "limit"
        /\ req[r].ret[1]
        /\ Len(AdmittedBefore(r)) = RATE_LIMIT
        /\ AdmittedBefore(r)[1].ts + RATE_WINDOW_MS = req[r].args[3]
        /\ AdmittedBefore(r)[RATE_LIMIT].ts > AdmittedBefore(r)[1].ts

\* C39: a request of the idea route is answered 429 only when RATE_LIMIT
\* allowed idea requests of its key lie in the window, whatever the number of
\* upload-url requests.
IdeaLimitCountsIdeasOnly ==
    \A r \in Requests :
        req[r].kind = "limit" /\ req[r].args[2] = "ideas" /\ ~req[r].ret[1] =>
            LET history == admitted[req[r].args[1]]
            IN  Cardinality({i \in InWindow(history, req[r].args[3]) :
                                history[i].route = "ideas"}) >= RATE_LIMIT

\* ---- properties of getPlanById --------------------------------------------
\* C40: getPlanById returns no plan older than the most recent updatePlan
\* completed before the call left it, and fails with NotFound when a
\* deletePlan completed before the call.
PlanReadsAreCurrent ==
    \A r \in Requests :
        req[r].kind = "getPlan" /\ req[r].pc = "done" =>
            LET atStart == req[r].args[1]
            IN  IF atStart = Null THEN req[r].status \in {"notfound", "error"}
                ELSE req[r].status = "ok" => req[r].ret[1] >= atStart[1]

=============================================================================
